---- MODULE Spec2Model ----
(***************************************************************************)
(* Model of the ray tracer core (styxx3542/ray_tracer):                    *)
(*   - the refractive-index stack carried by a Ray and maintained by       *)
(*     IntersectionState::prepare_computations        (SpecRay)            *)
(*   - the Intersections collection: push / sort / hit (SpecXs)            *)
(*   - the recursive shading of World::color_at        (SpecWorld)         *)
(*   - World::is_shadowed                              (SpecShadow)        *)
(*   - the fluent transform builder of Matrix          (SpecMatrix)        *)
(*   - the cached matrices of Object and Camera        (SpecObject,        *)
(*                                                      SpecCamera)        *)
(*   - Canvas::write_pixel and Canvas::to_ppm          (SpecCanvas)        *)
(*   - the pixel loop of Camera::render                (SpecRender)        *)
(*   - the constructors and the intersect kernels of   (SpecShape)         *)
(*     the shapes, behind Object::intersect                                *)
(*   - Material::lighting with World::is_shadowed      (SpecLighting)      *)
(*   - World::color_at called repeatedly on one ray    (SpecAgain)         *)
(*                                                                         *)
(* f64 scalars are fixed-point integers: One stands for 1.0, so one unit   *)
(* is 1e-6.  A colour is one channel of a Color (all Color operations are  *)
(* componentwise and identical on r, g and b).                             *)
(* The coordinates of the shapes are whole multiples of 1/Q and the t of   *)
(* an intersection with a shape is an exact fraction.                      *)
(***************************************************************************)
EXTENDS Integers, Sequences, FiniteSets, TLC

VARIABLES
    ray,        \* Ray.refractive_indices of the ray under test
    made,       \* how that ray was built: "new" or "with_indices"
    calls,      \* one record per prepare_computations call made on that ray
    panicked,   \* a panic (expect / index out of bounds) unwound the program
    xs,         \* Intersections.intersections
    xsPre,      \* the vector as it was when sort() was last called on xs
    sortedBy,   \* TRUE once sort() has run on xs and nothing was pushed since
    hitres,     \* what hit() returned, if it was the last operation on xs
    world,      \* World: lights, max_recursive_depth (the objects are Objects)
    frames,     \* chain of active color_at_impl calls, outermost first
    ret,        \* colour returned by the call that completed last
    lastShade,  \* operands and result of the shade_hit that completed last
    underflow,  \* a u8 subtraction wrapped below zero
    shadow,     \* arguments and result of the is_shadowed call made last
    matrix,     \* the Matrix a chain of builder calls has produced so far
    chain,      \* the builder calls of that chain, first call first
    anObject,   \* an Object: transform, its two cached matrices, material
    objectOp,   \* the operation applied to that Object last
    camera,     \* a Camera: transform and transform_inverse
    camray,     \* origin of the ray ray_for_pixel returned last
    canvas,     \* a Canvas: width, length, grid
    written,    \* colour of the last successful write_pixel to each pixel
    lastWrite,  \* arguments and outcome of the write_pixel call made last
    ppmText,    \* what to_ppm returned, if it was the last operation
    scene,      \* what the ray through each pixel of the camera meets
    image,      \* the Canvas under construction in Camera::render
    cursor,     \* position of Camera::render in its loops
    pixray,     \* index stack of the ray of the pixel being rendered
    shapeObject,  \* an Object built by one of the constructors of a shape
    builtBy,    \* the constructor call that built it
    found,      \* the intersect call made last and the Intersections it gave
    strata,     \* what a ray meets: the object it hits and what lies behind it
    colours,    \* one record per World::color_at call made on the ray
    casters,    \* does_cast_shadow of the material of each object of a World
    shaded,     \* arguments and result of the Material::lighting call made last
    verdict     \* arguments and result of is_shadowed on the World of casters

vars == <<ray, made, calls, panicked, xs, xsPre, sortedBy, hitres,
          world, frames, ret, lastShade, underflow, shadow, matrix, chain,
          anObject, objectOp, camera, camray, canvas, written, lastWrite,
          ppmText, scene, image, cursor, pixray, shapeObject, builtBy, found,
          casters, shaded, verdict, strata, colours>>

rayVars == <<ray, made, calls>>
xsVars == <<xs, xsPre, sortedBy, hitres>>
worldVars == <<world, frames, ret, lastShade, underflow>>
shadowVars == <<shadow>>
matrixVars == <<matrix, chain>>
objectVars == <<anObject, objectOp>>
cameraVars == <<camera, camray>>
canvasVars == <<canvas, written, lastWrite, ppmText>>
renderVars == <<scene, image, cursor, pixray>>
shapeVars == <<shapeObject, builtBy, found>>
lightingVars == <<casters, shaded, verdict>>
againVars == <<strata, colours>>
unitVars == <<shapeVars, lightingVars, againVars>>
sceneVars == <<shadowVars, matrixVars, objectVars, cameraVars, canvasVars,
               renderVars, unitVars>>
coreVars == <<rayVars, xsVars, worldVars>>

----------------------------------------------------------------------------
(* Bounds of the model *)

MaxCalls == 4       \* prepare_computations calls on one ray
MaxInitLen == 2     \* length of the vector handed to with_indices
MaxXs == 3          \* intersections pushed into one collection
MaxDepth == 2       \* largest max_recursive_depth a World is given
MaxLights == 1      \* largest number of lights a World is given
MaxShadowLights == 2  \* lights of the World is_shadowed is called on
MaxShadowXs == 2    \* intersections of the ray is_shadowed casts
MaxChain == 3       \* builder calls in one chain of transforms
MaxWrites == 2      \* write_pixel calls on one Canvas

----------------------------------------------------------------------------
(* Fixed-point f64 *)

One == 1000000

EPSILON == 10

Vacuum == One

abs(x) == IF x < 0 THEN -x ELSE x

approx_eq_epsilon(a, b, epsilon) == abs(a - b) <= epsilon

approx_eq(a, b) == approx_eq_epsilon(a, b, EPSILON)

\* refractive indices the model draws from: 1.0, 1.5, 1.500005, 2.0, 2.5
Indices == {One, 1500000, 1500005, 2000000, 2500000}

Last(s) == s[Len(s)]

----------------------------------------------------------------------------
(* Ray: the refractive-index stack *)

Ray_new == << >>

with_indices(r, indices) == indices

get_indices(r) == r

add_index_front(r, refractive_index) == <<refractive_index>> \o r

add_index(r, refractive_index) == Append(r, refractive_index)

remove_index(r, refractive_index) ==
    SelectSeq(r, LAMBDA o : o # refractive_index)

\* iter().rev().find(..): the last element of s whose position is in I
RevFind(s, I) ==
    IF I = {} THEN [some |-> FALSE, v |-> 0]
    ELSE [some |-> TRUE, v |-> s[CHOOSE i \in I : \A j \in I : j <= i]]

calculate_refraction_state_exact(r, current_index) ==
    LET objects == get_indices(r)
        is_entering == ~(\E i \in 1..Len(objects) : objects[i] = current_index)
    IN  IF objects = << >>
        THEN [panic |-> TRUE, n1 |-> 0, n2 |-> 0, is_entering |-> is_entering]
        ELSE LET previous_refraction_index == Last(objects)
                 prev == RevFind(objects, {i \in 1..Len(objects) : objects[i] # current_index})
             IN  IF is_entering
                 THEN [panic |-> FALSE, n1 |-> previous_refraction_index,
                       n2 |-> current_index, is_entering |-> TRUE]
                 ELSE [panic |-> FALSE, n1 |-> previous_refraction_index,
                       n2 |-> IF prev.some THEN prev.v
                              ELSE previous_refraction_index,
                       is_entering |-> FALSE]

calculate_refraction_state(r, current_index) ==
    LET objects == get_indices(r)
        is_entering == ~(\E i \in 1..Len(objects) : approx_eq(objects[i], current_index))
    IN  IF objects = << >>
        THEN \* .last().expect("Never should be empty ...") panics
             [panic |-> TRUE, n1 |-> 0, n2 |-> 0, is_entering |-> is_entering]
        ELSE LET previous_refraction_index == Last(objects)
                 prev == RevFind(objects, {i \in 1..Len(objects) :
                                             ~approx_eq(objects[i], current_index)})
             IN  IF is_entering
                 THEN [panic |-> FALSE, n1 |-> previous_refraction_index,
                       n2 |-> current_index, is_entering |-> TRUE]
                 ELSE [panic |-> FALSE, n1 |-> previous_refraction_index,
                       n2 |-> IF prev.some THEN prev.v
                              ELSE previous_refraction_index,
                       is_entering |-> FALSE]

\* The refraction part of IntersectionState::prepare_computations: the state
\* it reports and the ray's stack after the call.
prepare_computations(r, k) ==
    LET state == calculate_refraction_state(r, k)
    IN  IF state.panic
        THEN [panic |-> TRUE, n1 |-> 0, n2 |-> 0, is_entering |-> FALSE,
              indices |-> r]
        ELSE [panic |-> FALSE, n1 |-> state.n1, n2 |-> state.n2,
              is_entering |-> state.is_entering,
              indices |-> IF state.is_entering THEN add_index(r, k)
                          ELSE remove_index(r, k)]

----------------------------------------------------------------------------
(* Intersection / Intersections *)

\* the f64 NaN; every comparison with it is false
NaN == 999

is_nan(t) == t = NaN

f64_lt(a, b) == ~is_nan(a) /\ ~is_nan(b) /\ a < b

f64_gt(a, b) == ~is_nan(a) /\ ~is_nan(b) /\ a > b

f64_ge(a, b) == ~is_nan(a) /\ ~is_nan(b) /\ a >= b

\* t-values and objects the model draws intersections from
TValues == {-1, 0, 1, 2, NaN}

ObjectRefs == {1, 2}

Intersection_new(t, object) == [t |-> t, object |-> object]

cmp_nan_first(self, other) ==
    IF is_nan(self.t) THEN "Less"
    ELSE IF is_nan(other.t) THEN "Greater"
    ELSE IF f64_lt(self.t, other.t) THEN "Less"
    ELSE IF f64_gt(self.t, other.t) THEN "Greater"
    ELSE "Equal"

cmp(self, other) ==
    IF is_nan(self.t) THEN "Greater"
    ELSE IF is_nan(other.t) THEN "Less"
    ELSE IF f64_lt(self.t, other.t) THEN "Less"
    ELSE IF f64_gt(self.t, other.t) THEN "Greater"
    ELSE "Equal"

partial_cmp(self, other) == cmp(self, other)

\* PartialOrd::lt, the comparison slice::sort_unstable sorts by
lt(self, other) == partial_cmp(self, other) = "Less"

Rearrangements(v) ==
    LET n == Len(v)
        B == {f \in [1..n -> 1..n] : \A i, j \in 1..n : f[i] = f[j] => i = j}
    IN  {[i \in 1..n |-> v[f[i]]] : f \in B}

\* slice::sort_unstable: some rearrangement of v in which no element is lt an
\* earlier one; which of several equal elements comes first is not specified
sort_unstable(v) ==
    {p \in Rearrangements(v) : \A i, j \in 1..Len(p) : i < j => ~lt(p[j], p[i])}

\* iter().find(..): the first element of s whose position is in I
Find(s, I) ==
    IF I = {} THEN [some |-> FALSE]
    ELSE [some |-> TRUE, i |-> s[CHOOSE i \in I : \A j \in I : i <= j]]

hit_positive(v) == Find(v, {i \in 1..Len(v) : f64_gt(v[i].t, 0)})

hit(v) == Find(v, {i \in 1..Len(v) : f64_ge(v[i].t, 0)})

----------------------------------------------------------------------------
(* World: recursive shading *)

\* Color::new(0.0, 0.0, 0.0)
Black == 0

Color_add(a, b) == a + b

\* Color * f64
Color_mul(c, f) == (c * f) \div One

\* materials of the objects of the world: Material::new(), a mirror
\* (with_reflective(1.0)), the material of new_glass_sphere, the floor of
\* tests::shade_hit_reflective_transparent_material, and a material whose
\* transparency is positive but approximately zero
Objects == <<
    [reflective |-> 0, transparency |-> 0, refractive_index |-> One],
    [reflective |-> One, transparency |-> 0, refractive_index |-> One],
    [reflective |-> 0, transparency |-> One, refractive_index |-> 1500000],
    [reflective |-> One \div 2, transparency |-> One \div 2,
     refractive_index |-> 1500000],
    [reflective |-> One \div 2, transparency |-> 5, refractive_index |-> 1500000] >>

\* eyev . normalv, in fifths: 0, 3/5, 4/5, 1
CosDen == 5

CosValues == {0, 3, 4, 5}

\* sqrt(CosDen^2 - c^2) for the values of CosValues
SinOf(c) == CASE c = 0 -> 5 [] c = 3 -> 4 [] c = 4 -> 3 [] c = 5 -> 0

\* sin2_t > 1.0 where sin2_t = (n1/n2)^2 * (1 - cos_i^2); for positive n1, n2
\* and 0 <= cos_i <= 1 that is n1 * sqrt(1 - cos_i^2) > n2
sin2_t_gt_1(n1, n2, cos_i) == n1 * SinOf(cos_i) > n2 * CosDen

\* colours Material::lighting may return for one light
LightingColors == {0, 100}

\* values IntersectionState::schlick may return when it does not return 1.0
\* for total internal reflection
Reflectances == {40000, One}

\* remaining_recursions - 1 on u8
sub_u8(a, b) == (a - b) % 256

keep_remaining(remaining_recursions) == remaining_recursions

child_remaining(remaining_recursions) == sub_u8(remaining_recursions, 1)

\* reflected_color goes on to spawn the reflected ray
reflected_color_spawns_at_depth_0(material, remaining_recursions) ==
    ~(material.reflective = 0)

reflected_color_spawns(material, remaining_recursions) ==
    ~(material.reflective = 0 \/ remaining_recursions = 0)

\* refracted_color goes on to spawn the refracted ray
refracted_color_spawns(material, n1, n2, cos_i, remaining_recursions) ==
    /\ ~(approx_eq(material.transparency, 0) \/ remaining_recursions = 0)
    /\ ~sin2_t_gt_1(n1, n2, cos_i)

\* refracted_color returns black through its sin2_t > 1.0 branch
refracted_color_total_internal(material, n1, n2, cos_i, remaining_recursions) ==
    /\ ~(approx_eq(material.transparency, 0) \/ remaining_recursions = 0)
    /\ sin2_t_gt_1(n1, n2, cos_i)

schlick_without_total_reflection(n1, n2, cos_i, r) == r

\* IntersectionState::schlick; r is the value of r0 + (1 - r0)(1 - cos)^5
schlick(n1, n2, cos_i, r) ==
    IF n1 > n2 /\ sin2_t_gt_1(n1, n2, cos_i) THEN One ELSE r

shade_hit_color_either(material, surface_color, reflected, refracted, reflectance) ==
    IF material.reflective > 0 \/ material.transparency > 0
    THEN Color_add(Color_add(surface_color, Color_mul(reflected, reflectance)),
                   Color_mul(refracted, One - reflectance))
    ELSE Color_add(Color_add(surface_color, reflected), refracted)

\* the colour shade_hit returns from its operands
shade_hit_color(material, surface_color, reflected, refracted, reflectance) ==
    IF material.reflective > 0 /\ material.transparency > 0
    THEN Color_add(Color_add(surface_color, Color_mul(reflected, reflectance)),
                   Color_mul(refracted, One - reflectance))
    ELSE Color_add(Color_add(surface_color, reflected), refracted)

RECURSIVE SumSeq(_)
SumSeq(q) == IF q = << >> THEN Black ELSE Color_add(q[1], SumSeq(Tail(q)))

\* a color_at_impl call that has just been entered
NewFrame(r, remaining_recursions) ==
    [ray |-> r, origin |-> "primary", remaining |-> remaining_recursions,
     pc |-> "intersect", object |-> 0, n1 |-> 0, n2 |-> 0, cos_i |-> 0,
     reflected |-> Black, refracted |-> Black, total_internal |-> FALSE]

\* the ray reflected_color spawns: Ray::new(comps.over_point(), comps.reflectv())
reflect_ray(comps) == [origin |-> "over_point", indices |-> Ray_new]

refract_ray_outer_index(comps) ==
    [origin |-> "under_point", indices |-> with_indices(Ray_new, <<comps.n1>>)]

\* the ray refracted_color spawns:
\* Ray::new(comps.under_point(), direction).with_indices(vec![comps.n2()])
refract_ray(comps) ==
    [origin |-> "under_point", indices |-> with_indices(Ray_new, <<comps.n2>>)]

\* the color_at_impl call made on a spawned ray
ChildFrame(r, remaining_recursions) ==
    [NewFrame(r.indices, remaining_recursions) EXCEPT !.origin = r.origin]

Return_into_parent_ray(c) ==
    LET n == Len(frames)
        caller == frames[n - 1]
        m == Objects[caller.object]
    IN  IF n = 1 THEN << >>
        ELSE [SubSeq(frames, 1, n - 1) EXCEPT ![n - 1] =
                IF caller.pc = "reflected_wait"
                THEN [caller EXCEPT !.reflected = Color_mul(c, m.reflective),
                                    !.ray = frames[n].ray,
                                    !.pc = "refracted"]
                ELSE [caller EXCEPT !.refracted = Color_mul(c, m.transparency),
                                    !.ray = frames[n].ray,
                                    !.pc = "lighting"]]

\* the innermost color_at_impl call returns colour c: the call stack and the
\* caller (reflected_color or refracted_color, which scales the colour)
Return(c) ==
    LET n == Len(frames)
        caller == frames[n - 1]
        m == Objects[caller.object]
    IN  IF n = 1 THEN << >>
        ELSE [SubSeq(frames, 1, n - 1) EXCEPT ![n - 1] =
                IF caller.pc = "reflected_wait"
                THEN [caller EXCEPT !.reflected = Color_mul(c, m.reflective),
                                    !.pc = "refracted"]
                ELSE [caller EXCEPT !.refracted = Color_mul(c, m.transparency),
                                    !.pc = "lighting"]]

----------------------------------------------------------------------------
(* Matrix: a 4x4 grid, here a tuple of rows; entries are whole numbers (units
   of 1.0) and angles are whole quarter turns, so that every product and every
   inverse of a matrix of determinant 1 or -1 is exact *)

MATRIX_SIZE == 4

Matrix_id ==
    << <<1, 0, 0, 0>>, <<0, 1, 0, 0>>, <<0, 0, 1, 0>>, <<0, 0, 0, 1>> >>

transpose(self) ==
    [i \in 1..MATRIX_SIZE |-> [j \in 1..MATRIX_SIZE |-> self[j][i]]]

\* position in the grid of row (or column) i of the submatrix without k
Skip(i, k) == IF i < k THEN i ELSE i + 1

Matrix2_determinant(m) == m[1][1] * m[2][2] - m[1][2] * m[2][1]

Matrix3_submatrix(m, row, col) ==
    [i \in 1..2 |-> [j \in 1..2 |-> m[Skip(i, row)][Skip(j, col)]]]

Matrix3_colfactor(m, row, col) ==
    IF (row + col) % 2 = 0
    THEN Matrix2_determinant(Matrix3_submatrix(m, row, col))
    ELSE -Matrix2_determinant(Matrix3_submatrix(m, row, col))

Matrix3_determinant(m) ==
    m[1][1] * Matrix3_colfactor(m, 1, 1) + m[1][2] * Matrix3_colfactor(m, 1, 2)
        + m[1][3] * Matrix3_colfactor(m, 1, 3)

submatrix(self, row, col) ==
    [i \in 1..3 |-> [j \in 1..3 |->
        self[Skip(i, row)][Skip(j, col)]]]

cofactor(self, row, col) ==
    IF (row + col) % 2 = 0
    THEN Matrix3_determinant(submatrix(self, row, col))
    ELSE -Matrix3_determinant(submatrix(self, row, col))

determinant(self) ==
    self[1][1] * cofactor(self, 1, 1) + self[1][2] * cofactor(self, 1, 2)
        + self[1][3] * cofactor(self, 1, 3) + self[1][4] * cofactor(self, 1, 4)

invertible(self) == determinant(self) # 0

\* c / det, exact when det divides c
f64_div(c, det) == IF det < 0 THEN (-c) \div (-det) ELSE c \div det

\* Matrix::inverse: [some |-> FALSE] is None
inverse(self) ==
    IF ~invertible(self) THEN [some |-> FALSE]
    ELSE LET det == determinant(self)
         IN  [some |-> TRUE,
              m |-> [j \in 1..MATRIX_SIZE |-> [i \in 1..MATRIX_SIZE |->
                        f64_div(cofactor(self, i, j), det)]]]

\* impl Mul<Matrix> for Matrix
Matrix_mul(self, rhs) ==
    [i \in 1..MATRIX_SIZE |-> [j \in 1..MATRIX_SIZE |->
        self[i][1] * rhs[1][j] + self[i][2] * rhs[2][j]
            + self[i][3] * rhs[3][j] + self[i][4] * rhs[4][j]]]

\* impl Mul<T: Tuple> for Matrix, for a Point (w = 1.0)
Matrix_mul_point(self, p) ==
    [k \in 1..3 |-> self[k][1] * p[1] + self[k][2] * p[2] + self[k][3] * p[3]
                        + self[k][4] * 1]

\* cos and sin of r quarter turns
cos(r) == CASE r % 4 = 0 -> 1 [] r % 4 = 1 -> 0 [] r % 4 = 2 -> -1 [] r % 4 = 3 -> 0

sin(r) == CASE r % 4 = 0 -> 0 [] r % 4 = 1 -> 1 [] r % 4 = 2 -> 0 [] r % 4 = 3 -> -1

\* the matrix `result` each builder fills in before it multiplies
translation(x, y, z) ==
    << <<1, 0, 0, x>>, <<0, 1, 0, y>>, <<0, 0, 1, z>>, <<0, 0, 0, 1>> >>

scaling(x, y, z) ==
    << <<x, 0, 0, 0>>, <<0, y, 0, 0>>, <<0, 0, z, 0>>, <<0, 0, 0, 1>> >>

rotation_x(r) ==
    << <<1, 0, 0, 0>>, <<0, cos(r), -sin(r), 0>>, <<0, sin(r), cos(r), 0>>,
       <<0, 0, 0, 1>> >>

rotation_y(r) ==
    << <<cos(r), 0, sin(r), 0>>, <<0, 1, 0, 0>>, <<-sin(r), 0, cos(r), 0>>,
       <<0, 0, 0, 1>> >>

rotation_z(r) ==
    << <<cos(r), -sin(r), 0, 0>>, <<sin(r), cos(r), 0, 0>>, <<0, 0, 1, 0>>,
       <<0, 0, 0, 1>> >>

shearing(xy, xz, yx, yz, zx, zy) ==
    << <<1, xy, xz, 0>>, <<yx, 1, yz, 0>>, <<zx, zy, 1, 0>>, <<0, 0, 0, 1>> >>

translate(self, x, y, z) == Matrix_mul(translation(x, y, z), self)

scale(self, x, y, z) == Matrix_mul(scaling(x, y, z), self)

rotate_x(self, r) == Matrix_mul(rotation_x(r), self)

rotate_y(self, r) == Matrix_mul(rotation_y(r), self)

\* returns `result`, not `result * *self`
rotate_z(self, r) == rotation_z(r)

shear(self, xy, xz, yx, yz, zx, zy) ==
    Matrix_mul(shearing(xy, xz, yx, yz, zx, zy), self)

----------------------------------------------------------------------------
(* Object and Camera: the transform and the matrices cached from it *)

Shapes == {"Sphere", "Plane", "Cube", "Cylinder", "Cone"}

\* Material::new() and the material of new_glass_sphere
Material_new == Objects[1]

Materials == {Objects[1], Objects[2], Objects[3]}

\* impl Default for Object, with the shape a constructor names
Object_default(shape) ==
    [shape |-> shape, transform |-> Matrix_id, transform_inverse |-> Matrix_id,
     transform_inverse_transpose |-> Matrix_id, material |-> Material_new]

set_material(self, material) == [self EXCEPT !.material = material]

new_glass_sphere == set_material(Object_default("Sphere"), Objects[3])

set_transform_keep_transpose(self, transform) ==
    LET inv == inverse(transform)
    IN  IF ~inv.some THEN [panic |-> TRUE, object |-> self]
        ELSE [panic |-> FALSE,
              object |-> [self EXCEPT !.transform = transform,
                                      !.transform_inverse = inv.m]]

\* Object::set_transform; inverse().unwrap() panics on a singular matrix
set_transform(self, transform) ==
    LET inv == inverse(transform)
    IN  IF ~inv.some THEN [panic |-> TRUE, object |-> self]
        ELSE [panic |-> FALSE,
              object |-> [self EXCEPT !.transform = transform,
                                      !.transform_inverse = inv.m,
                                      !.transform_inverse_transpose =
                                          transpose(inv.m)]]

\* transforms handed to set_transform, Camera::new and c.transform = ..;
\* the last one is singular
Transforms ==
    {Matrix_id,
     translate(Matrix_id, 0, -2, 5),
     Matrix_mul(rotate_y(Matrix_id, 1), translate(Matrix_id, 0, -2, 5)),
     translate(rotate_x(Matrix_id, 1), 10, 5, 7),
     scale(Matrix_id, -1, 1, 1),
     shear(Matrix_id, 1, 0, 0, 0, 0, 0),
     translate(shear(rotate_z(Matrix_id, 1), 0, 0, 0, 1, 0, 0), 1, 2, 3),
     scale(Matrix_id, 0, 1, 1)}

\* Camera::new; the sizes and the field of view play no part in the origin
\* of a ray
Camera_new(hsize, vsize, transform) ==
    LET inv == inverse(transform)
    IN  IF ~inv.some THEN [panic |-> TRUE]
        ELSE [panic |-> FALSE,
              camera |-> [hsize |-> hsize, vsize |-> vsize,
                          transform |-> transform,
                          transform_inverse |-> inv.m]]

\* c.transform = transform, as tests::ray_when_camera_is_transformed and
\* tests::render_world_with_camera do
assign_transform(self, transform) == [self EXCEPT !.transform = transform]

\* origin of the Ray ray_for_pixel returns
ray_for_pixel_origin(self) == Matrix_mul_point(self.transform_inverse, <<0, 0, 0>>)

----------------------------------------------------------------------------
(* Shapes: rays in space and the object-space kernels. A coordinate is a
   whole number of 1/Q, so that 0.25, 0.5 and 0.6 are exact; a t value is an
   exact fraction n/d with d >= 0, d = 0 standing for an infinity (or for NaN
   when n = 0 as well). The rays of the model are chosen so that every square
   root a kernel takes of them is the root of a perfect square. *)

Q == 20

\* f64::INFINITY as a bound of a cylinder or cone: a height beyond every
\* point the model computes
INFINITY == 1000 * Q

NEG_INFINITY == -INFINITY

Sign(x) == IF x > 0 THEN 1 ELSE IF x < 0 THEN -1 ELSE 0

RECURSIVE Gcd(_, _)
Gcd(a, b) == IF b = 0 THEN a ELSE Gcd(b, a % b)

\* n / d on f64, in lowest terms
f64_ratio(n, d) ==
    IF d = 0 THEN [n |-> Sign(n), d |-> 0]
    ELSE LET g == Gcd(abs(n), abs(d))
         IN  [n |-> Sign(d) * Sign(n) * (abs(n) \div g), d |-> abs(d) \div g]

Rat_is_nan(a) == a.n = 0 /\ a.d = 0

\* a < b on f64
Rat_lt(a, b) ==
    /\ ~Rat_is_nan(a)
    /\ ~Rat_is_nan(b)
    /\ IF a.d = 0 /\ b.d = 0 THEN a.n < b.n ELSE a.n * b.d < b.n * a.d

Rat_gt(a, b) == Rat_lt(b, a)

\* f64::max and f64::min: a NaN operand is ignored
Rat_max(a, b) ==
    IF Rat_is_nan(a) THEN b
    ELSE IF Rat_is_nan(b) THEN a
    ELSE IF Rat_lt(a, b) THEN b ELSE a

Rat_min(a, b) ==
    IF Rat_is_nan(a) THEN b
    ELSE IF Rat_is_nan(b) THEN a
    ELSE IF Rat_lt(b, a) THEN b ELSE a

RECURSIVE SqrtBetween(_, _, _)
SqrtBetween(x, lo, hi) ==
    IF lo = hi THEN lo
    ELSE LET mid == (lo + hi + 1) \div 2
         IN  IF mid * mid <= x THEN SqrtBetween(x, mid, hi)
             ELSE SqrtBetween(x, lo, mid - 1)

\* f64::sqrt of a whole number: exact on the perfect squares
f64_sqrt(x) == SqrtBetween(x, 0, 46340)

\* x.approx_eq(0.0) and x.abs() < EPSILON for x a whole number of 1/Q or of
\* 1/Q^2: the least magnitude above zero, 1/Q^2, is far above EPSILON
approx_zero(x) == x = 0

dot_product(a, b) == a[1] * b[1] + a[2] * b[2] + a[3] * b[3]

\* Ray::transform: the origin is a Point (w = 1.0 = Q/Q), the direction a
\* Vector (w = 0.0)
Ray_transform(r, transform) ==
    [origin |-> [k \in 1..3 |->
                    transform[k][1] * r.origin[1] + transform[k][2] * r.origin[2]
                        + transform[k][3] * r.origin[3] + transform[k][4] * Q],
     direction |-> [k \in 1..3 |->
                    transform[k][1] * r.direction[1]
                        + transform[k][2] * r.direction[2]
                        + transform[k][3] * r.direction[3]]]

\* an Intersection a kernel pushes: its t, and the branch of the kernel that
\* pushed it
Hit_at(t, part) == [t |-> t, part |-> part]

\* Sphere::intersect
Sphere_intersects(r, object) ==
    LET sphere_to_ray == [k \in 1..3 |-> 0 - r.origin[k]]
        magnitude == f64_sqrt(dot_product(r.direction, r.direction))
        tc == dot_product(sphere_to_ray, r.direction) \div magnitude
        l == dot_product(sphere_to_ray, sphere_to_ray)
        d2 == l - tc * tc
    IN  IF d2 > Q * Q THEN << >>
        ELSE LET del == f64_sqrt(Q * Q - d2)
             IN  <<Hit_at(f64_ratio(tc - del, magnitude), "surface"),
                   Hit_at(f64_ratio(tc + del, magnitude), "surface")>>

\* Plane::intersects
Plane_intersects(r, object) ==
    IF approx_zero(r.direction[2]) THEN << >>
    ELSE <<Hit_at(f64_ratio(-r.origin[2], r.direction[2]), "surface")>>

\* Cube::check_axis
check_axis(origin, direction) ==
    LET tmin_numerator == -Q - origin
        tmax_numerator == Q - origin
        tmin == IF ~approx_zero(direction) THEN f64_ratio(tmin_numerator, direction)
                ELSE f64_ratio(tmin_numerator, 0)
        tmax == IF ~approx_zero(direction) THEN f64_ratio(tmax_numerator, direction)
                ELSE f64_ratio(tmax_numerator, 0)
    IN  IF Rat_gt(tmin, tmax) THEN <<tmax, tmin>> ELSE <<tmin, tmax>>

\* the rest of Cube::intersects, on the ray it works on
Cube_slabs(r) ==
    LET x == check_axis(r.origin[1], r.direction[1])
        y == check_axis(r.origin[2], r.direction[2])
        z == check_axis(r.origin[3], r.direction[3])
        tmin == Rat_max(Rat_max(x[1], y[1]), z[1])
        tmax == Rat_min(Rat_min(x[2], y[2]), z[2])
    IN  IF Rat_gt(tmin, tmax) THEN << >>
        ELSE <<Hit_at(tmin, "surface"), Hit_at(tmax, "surface")>>

\* Cube::intersects: it transforms the ray it is given by the inverse
\* transform of the object before it works on it
Cube_intersects(r, object) ==
    Cube_slabs(Ray_transform(r, object.transform_inverse))

\* self.minimum < y && y < self.maximum for y = origin.y + t * direction.y
between_bounds(self, r, t) ==
    LET y == r.origin[2] * t.d + t.n * r.direction[2]
    IN  self.minimum * t.d < y /\ y < self.maximum * t.d

\* x^2 + z^2 of the point of the ray at t, times (Q * t.d)^2
dist2_at(r, t) ==
    LET x == r.origin[1] * t.d + t.n * r.direction[1]
        z == r.origin[3] * t.d + t.n * r.direction[3]
    IN  x * x + z * z

\* Cylinder::check_cap
Cylinder_check_cap(self, r, t) == dist2_at(r, t) <= Q * Q * t.d * t.d

\* Cylinder::intersection_at_caps
Cylinder_intersection_at_caps(self, r, object) ==
    IF ~self.closed \/ approx_zero(r.direction[2]) THEN << >>
    ELSE LET t0 == f64_ratio(self.minimum - r.origin[2], r.direction[2])
             t1 == f64_ratio(self.maximum - r.origin[2], r.direction[2])
         IN  (IF Cylinder_check_cap(self, r, t0) THEN <<Hit_at(t0, "cap")>>
              ELSE << >>)
             \o (IF Cylinder_check_cap(self, r, t1) THEN <<Hit_at(t1, "cap")>>
                 ELSE << >>)

\* the two roots of a quadratic, smaller first, each kept when the point of
\* the ray lies between the bounds
walls(self, r, a, b, discriminant) ==
    LET root0 == f64_ratio(-b - f64_sqrt(discriminant), 2 * a)
        root1 == f64_ratio(-b + f64_sqrt(discriminant), 2 * a)
        t0 == IF Rat_gt(root0, root1) THEN root1 ELSE root0
        t1 == IF Rat_gt(root0, root1) THEN root0 ELSE root1
    IN  (IF between_bounds(self, r, t0) THEN <<Hit_at(t0, "wall")>> ELSE << >>)
        \o (IF between_bounds(self, r, t1) THEN <<Hit_at(t1, "wall")>>
            ELSE << >>)

\* Cylinder::intersects
Cylinder_intersects(self, r, object) ==
    LET a == r.direction[1] * r.direction[1] + r.direction[3] * r.direction[3]
        b == 2 * r.origin[1] * r.direction[1] + 2 * r.origin[3] * r.direction[3]
        c == r.origin[1] * r.origin[1] + r.origin[3] * r.origin[3] - Q * Q
        discriminant == b * b - 4 * a * c
    IN  IF approx_zero(a) THEN Cylinder_intersection_at_caps(self, r, object)
        ELSE IF discriminant < 0 THEN << >>
        ELSE walls(self, r, a, b, discriminant)
                \o Cylinder_intersection_at_caps(self, r, object)

\* Cone::check_cap: x^2 + z^2 <= y.abs()
Cone_check_cap(self, r, t, y) == dist2_at(r, t) <= abs(y) * Q * t.d * t.d

\* Cone::intersection_at_caps
Cone_intersection_at_caps(self, r, object) ==
    IF ~self.closed \/ approx_zero(r.direction[2]) THEN << >>
    ELSE LET t0 == f64_ratio(self.minimum - r.origin[2], r.direction[2])
             t1 == f64_ratio(self.maximum - r.origin[2], r.direction[2])
         IN  (IF Cone_check_cap(self, r, t0, self.minimum)
              THEN <<Hit_at(t0, "cap")>> ELSE << >>)
             \o (IF Cone_check_cap(self, r, t1, self.maximum)
                 THEN <<Hit_at(t1, "cap")>> ELSE << >>)

\* Cone::intersects
Cone_intersects(self, r, object) ==
    LET a == r.direction[1] * r.direction[1] - r.direction[2] * r.direction[2]
                + r.direction[3] * r.direction[3]
        b == 2 * r.origin[1] * r.direction[1] - 2 * r.origin[2] * r.direction[2]
                + 2 * r.origin[3] * r.direction[3]
        c == r.origin[1] * r.origin[1] - r.origin[2] * r.origin[2]
                + r.origin[3] * r.origin[3]
        discriminant == b * b - 4 * a * c
    IN  IF approx_zero(a) /\ approx_zero(b)
        THEN Cone_intersection_at_caps(self, r, object)
        ELSE IF approx_zero(a) /\ ~approx_zero(b)
        THEN <<Hit_at(f64_ratio(-c, 2 * b), "wall")>>
                \o Cone_intersection_at_caps(self, r, object)
        ELSE IF discriminant < 0 THEN << >>
        ELSE walls(self, r, a, b, discriminant)
                \o Cone_intersection_at_caps(self, r, object)

\* the variants of enum Shape
Shape_Sphere == [variant |-> "Sphere"]

Shape_Plane == [variant |-> "Plane"]

Shape_Cube == [variant |-> "Cube"]

Shape_Cylinder(minimum, maximum, closed) ==
    [variant |-> "Cylinder", minimum |-> minimum, maximum |-> maximum,
     closed |-> closed]

Shape_Cone(minimum, maximum, closed) ==
    [variant |-> "Cone", minimum |-> minimum, maximum |-> maximum,
     closed |-> closed]

\* Shape::intersect
Shape_intersect(self, r, object) ==
    CASE self.variant = "Sphere" -> Sphere_intersects(r, object)
      [] self.variant = "Plane" -> Plane_intersects(r, object)
      [] self.variant = "Cube" -> Cube_intersects(r, object)
      [] self.variant = "Cylinder" -> Cylinder_intersects(self, r, object)
      [] self.variant = "Cone" -> Cone_intersects(self, r, object)

\* Object::intersect
Object_intersect(self, r) ==
    Shape_intersect(self.shape, Ray_transform(r, self.transform_inverse), self)

new_sphere == Object_default(Shape_Sphere)

new_plane == Object_default(Shape_Plane)

new_cube == Object_default(Shape_Cube)

new_cylinder(minimum, maximum) ==
    Object_default(Shape_Cylinder(minimum, maximum, FALSE))

new_closed_cylinder(minimum, maximum) ==
    Object_default(Shape_Cylinder(minimum, maximum, TRUE))

new_closed_cone(minimum, maximum) ==
    Object_default(Shape_Cylinder(minimum, maximum, TRUE))

new_cone(minimum, maximum) ==
    Object_default(Shape_Cone(minimum, maximum, FALSE))

----------------------------------------------------------------------------
(* World::is_shadowed *)

\* distances from the point to the first light
Distances == {1, 2}

\* World::intersect: the intersections of every object, sorted; ts are the
\* t values in the order the objects produced them
World_intersect(ts) ==
    sort_unstable([i \in 1..Len(ts) |-> Intersection_new(ts[i], 1 + (i % 2))])

is_shadowed_any_hit(intersections, distance) == hit(intersections).some

\* the value is_shadowed returns from the sorted intersections of the ray
\* toward self.lights[0] and the distance to that light
is_shadowed(intersections, distance) ==
    LET h == hit(intersections)
    IN  IF h.some THEN f64_lt(h.i.t, distance) ELSE FALSE

----------------------------------------------------------------------------
(* Material::lighting. A Color is one number, in thousandths; the
   coefficients of a material and the dot products are fixed-point f64 *)

\* Color * Color
Color_hadamard(a, b) == (a * b) \div 1000

\* impl Default for Material, the fields lighting reads; pattern holds the
\* colour pattern_at gives at the object point
Material_default ==
    [color |-> 1000, ambient |-> One \div 10, diffuse |-> 9 * (One \div 10),
     specular |-> 9 * (One \div 10), shininess |-> 200,
     pattern |-> [some |-> FALSE, color |-> 0], does_cast_shadow |-> TRUE]

with_shadow(self, flag) == [self EXCEPT !.does_cast_shadow = flag]

\* Material.pattern = Some(..), a field tests::lighting_with_pattern_applied
\* assigns
with_pattern_color(self, color) ==
    [self EXCEPT !.pattern = [some |-> TRUE, color |-> color]]

\* f64::powf(x, shininess) for 0 < x <= 1.0 and a shininess of 200: 1.0 at
\* 1.0, and below the grid of the fixed-point numbers for x <= 0.9
powf(x, shininess) == IF x = One THEN One ELSE 0

lighting_any_shadow(self, intensity, light_dot_normal, reflect_dot_eye, in_shadow) ==
    LET color == IF self.pattern.some THEN self.pattern.color ELSE self.color
        effective_color == Color_hadamard(color, intensity)
        ambient == Color_mul(effective_color, self.ambient)
        lit == ~(light_dot_normal < 0 \/ in_shadow)
        diffuse == IF lit THEN Color_mul(Color_mul(effective_color, self.diffuse),
                                         light_dot_normal)
                   ELSE Black
        specular == IF lit /\ reflect_dot_eye > 0
                    THEN Color_mul(Color_mul(intensity, self.specular),
                                   powf(reflect_dot_eye, self.shininess))
                    ELSE Black
    IN  [ambient |-> ambient, diffuse |-> diffuse, specular |-> specular,
         color |-> Color_add(Color_add(ambient, diffuse), specular)]

\* Material::lighting, from the two dot products it computes; the value
\* returned is the field color, the sum of the three terms
lighting(self, intensity, light_dot_normal, reflect_dot_eye, in_shadow) ==
    LET color == IF self.pattern.some THEN self.pattern.color ELSE self.color
        effective_color == Color_hadamard(color, intensity)
        ambient == Color_mul(effective_color, self.ambient)
        lit == ~(light_dot_normal < 0 \/ (in_shadow /\ self.does_cast_shadow))
        diffuse == IF lit THEN Color_mul(Color_mul(effective_color, self.diffuse),
                                         light_dot_normal)
                   ELSE Black
        specular == IF lit /\ reflect_dot_eye > 0
                    THEN Color_mul(Color_mul(intensity, self.specular),
                                   powf(reflect_dot_eye, self.shininess))
                    ELSE Black
    IN  [ambient |-> ambient, diffuse |-> diffuse, specular |-> specular,
         color |-> Color_add(Color_add(ambient, diffuse), specular)]

----------------------------------------------------------------------------
(* Canvas: a grid of Colors (each with its three components, fixed-point) and
   its PPM text, a String modelled as the sequence of its characters *)

Color_new(red, green, blue) == <<red, green, blue>>

\* the colours tests::ppm_pixel_data writes
CanvasColors ==
    {Color_new(1500000, 0, 0), Color_new(0, 500000, 0),
     Color_new(-500000, 0, One)}

Canvas_new(width, length) ==
    [width |-> width, length |-> length,
     grid |-> [h \in 1..length |-> [w \in 1..width |-> Color_new(0, 0, 0)]]]

write_pixel_transposed(self, width, height, color) ==
    IF width >= self.width \/ height >= self.length
    THEN [panic |-> TRUE, canvas |-> self]
    ELSE IF width + 1 > self.length \/ height + 1 > self.width
         THEN [panic |-> TRUE, canvas |-> self]
         ELSE [panic |-> FALSE,
               canvas |-> [self EXCEPT !.grid[width + 1][height + 1] = color]]

\* Canvas::write_pixel
write_pixel(self, width, height, color) ==
    IF width >= self.width \/ height >= self.length
    THEN [panic |-> TRUE, canvas |-> self]
    ELSE [panic |-> FALSE,
          canvas |-> [self EXCEPT !.grid[height + 1][width + 1] = color]]

\* Canvas::pixel_at, for a pixel of the grid
pixel_at(self, width, height) == self.grid[height + 1][width + 1]

\* c * 255.0
times_255(c) == c * 255

as_u8_wrapping(f) == (IF f < 0 THEN -((-f) \div One) ELSE f \div One) % 256

\* f as u8: the fraction is dropped and the value saturates at 0 and 255
as_u8(f) ==
    IF f <= 0 THEN 0
    ELSE IF f >= 255 * One THEN 255
    ELSE f \div One

DigitChars == <<"0", "1", "2", "3", "4", "5", "6", "7", "8", "9">>

\* format!("{}", n) for n < 1000
to_string(n) ==
    IF n < 10 THEN <<DigitChars[n + 1]>>
    ELSE IF n < 100 THEN <<DigitChars[(n \div 10) + 1], DigitChars[(n % 10) + 1]>>
    ELSE <<DigitChars[(n \div 100) + 1], DigitChars[((n \div 10) % 10) + 1],
           DigitChars[(n % 10) + 1]>>

\* format!("{} {} {} ", ..) of one pixel
format_pixel(pixel) ==
    to_string(as_u8(times_255(pixel[1]))) \o <<" ">>
        \o to_string(as_u8(times_255(pixel[2]))) \o <<" ">>
        \o to_string(as_u8(times_255(pixel[3]))) \o <<" ">>

is_whitespace(c) == c \in {" ", "\n"}

RECURSIVE trim_end(_)
trim_end(str) ==
    IF str # << >> /\ is_whitespace(str[Len(str)])
    THEN trim_end(SubSeq(str, 1, Len(str) - 1))
    ELSE str

RECURSIVE trim_start(_)
trim_start(str) ==
    IF str # << >> /\ is_whitespace(str[1]) THEN trim_start(Tail(str)) ELSE str

\* str::trim
trim(str) == trim_start(trim_end(str))

LINE_LIMIT == 70

RECURSIVE ppm_row_late_wrap(_, _, _, _)
ppm_row_late_wrap(row, k, row_str, ppm) ==
    IF k > Len(row) THEN ppm \o trim(row_str) \o <<"\n">>
    ELSE LET s == format_pixel(row[k])
         IN  IF Len(row_str) > LINE_LIMIT
             THEN ppm_row_late_wrap(row, k + 1, s, ppm \o trim(row_str) \o <<"\n">>)
             ELSE ppm_row_late_wrap(row, k + 1, row_str \o s, ppm)

\* the inner loop of to_ppm from pixel k of a row on, and the push of the
\* rest of the row after it
RECURSIVE ppm_row(_, _, _, _)
ppm_row(row, k, row_str, ppm) ==
    IF k > Len(row) THEN ppm \o trim(row_str) \o <<"\n">>
    ELSE LET s == format_pixel(row[k])
         IN  IF Len(row_str) + Len(s) > LINE_LIMIT
             THEN ppm_row(row, k + 1, s, ppm \o trim(row_str) \o <<"\n">>)
             ELSE ppm_row(row, k + 1, row_str \o s, ppm)

\* the outer loop of to_ppm from row h on
RECURSIVE ppm_rows(_, _, _)
ppm_rows(grid, h, ppm) ==
    IF h > Len(grid) THEN ppm
    ELSE ppm_rows(grid, h + 1, ppm_row(grid[h], 1, << >>, ppm))

\* Canvas::to_ppm
to_ppm(self) ==
    ppm_rows(self.grid, 1,
             <<"P", "3", "\n">> \o to_string(self.width) \o <<" ">>
                 \o to_string(self.length) \o <<"\n">> \o <<"2", "5", "5", "\n">>)

----------------------------------------------------------------------------
(* SpecRay: one ray, built by Ray::new (optionally .with_indices(v)), then a
   sequence of prepare_computations calls on it *)

SeqsUpTo(S, n) == UNION {[1..m -> S] : m \in 0..n}

IdleXs == xs = << >> /\ xsPre = << >> /\ sortedBy = FALSE /\ hitres = [some |-> FALSE]

IdleWorld ==
    /\ world = [lights |-> 0, max_recursive_depth |-> 0]
    /\ frames = << >>
    /\ ret = [some |-> FALSE]
    /\ lastShade = [valid |-> FALSE]
    /\ underflow = FALSE

IdleRay == ray = Ray_new /\ made = "new" /\ calls = << >>

IdleShadow == shadow = [some |-> FALSE]

IdleMatrix == matrix = Matrix_id /\ chain = << >>

IdleObject == anObject = Object_default("Sphere") /\ objectOp = "new"

IdleCamera ==
    /\ camera = Camera_new(0, 0, Matrix_id).camera
    /\ camray = [some |-> FALSE]

IdleCanvas ==
    /\ canvas = Canvas_new(0, 0)
    /\ written = << >>
    /\ lastWrite = [n |-> 0]
    /\ ppmText = [some |-> FALSE]

IdleRender ==
    /\ scene = << >>
    /\ image = Canvas_new(0, 0)
    /\ cursor = [pc |-> "idle"]
    /\ pixray = Ray_new

IdleShape ==
    /\ shapeObject = new_sphere
    /\ builtBy = [name |-> "new_sphere", minimum |-> 0, maximum |-> 0]
    /\ found = [some |-> FALSE]

IdleLighting ==
    /\ casters = [o \in ObjectRefs |-> TRUE]
    /\ shaded = [some |-> FALSE]
    /\ verdict = [some |-> FALSE]

IdleAgain ==
    /\ strata = [object |-> 0, floor |-> FALSE, cos_i |-> 0, shade |-> Black,
                 floor_shade |-> Black]
    /\ colours = << >>

IdleUnits == IdleShape /\ IdleLighting /\ IdleAgain

IdleScene ==
    /\ IdleShadow /\ IdleMatrix /\ IdleObject /\ IdleCamera /\ IdleCanvas
    /\ IdleRender /\ IdleUnits

IdleCore == IdleRay /\ IdleXs /\ IdleWorld

InitRay ==
    /\ ray = Ray_new
    /\ made = "new"
    /\ calls = << >>
    /\ panicked = FALSE
    /\ IdleXs
    /\ IdleWorld
    /\ IdleScene

WithIndices(v) ==
    /\ made = "new"
    /\ calls = << >>
    /\ ~panicked
    /\ ray' = with_indices(ray, v)
    /\ made' = "with_indices"
    /\ UNCHANGED <<calls, panicked, xsVars, worldVars, sceneVars>>

PrepareComputations(k) ==
    /\ ~panicked
    /\ Len(calls) < MaxCalls
    /\ LET res == prepare_computations(ray, k)
       IN  IF res.panic
           THEN /\ panicked' = TRUE
                /\ calls' = Append(calls, [k |-> k, before |-> ray,
                                           after |-> ray, n1 |-> 0, n2 |-> 0,
                                           is_entering |-> FALSE,
                                           panic |-> TRUE])
                /\ UNCHANGED ray
           ELSE /\ ray' = res.indices
                /\ calls' = Append(calls, [k |-> k, before |-> ray,
                                           after |-> res.indices,
                                           n1 |-> res.n1, n2 |-> res.n2,
                                           is_entering |-> res.is_entering,
                                           panic |-> FALSE])
                /\ UNCHANGED panicked
    /\ UNCHANGED <<made, xsVars, worldVars, sceneVars>>

NextRay ==
    \/ \E v \in SeqsUpTo(Indices, MaxInitLen) : WithIndices(v)
    \/ \E k \in Indices : PrepareComputations(k)

SpecRay == InitRay /\ [][NextRay]_vars

----------------------------------------------------------------------------
(* SpecXs: one Intersections collection under push, sort and hit *)

InitXs ==
    /\ xs = << >>
    /\ xsPre = << >>
    /\ sortedBy = FALSE
    /\ hitres = [some |-> FALSE]
    /\ panicked = FALSE
    /\ IdleRay
    /\ IdleWorld
    /\ IdleScene

Push(object, t) ==
    /\ Len(xs) < MaxXs
    /\ xs' = Append(xs, Intersection_new(t, object))
    /\ sortedBy' = FALSE
    /\ xsPre' = << >>
    /\ hitres' = [some |-> FALSE]
    /\ UNCHANGED <<panicked, rayVars, worldVars, sceneVars>>

Sort ==
    /\ xs' \in sort_unstable(xs)
    /\ xsPre' = xs
    /\ sortedBy' = TRUE
    /\ hitres' = [some |-> FALSE]
    /\ UNCHANGED <<panicked, rayVars, worldVars, sceneVars>>

Hit ==
    /\ hitres' = [res |-> hit(xs), of |-> xs, some |-> TRUE]
    /\ UNCHANGED <<xs, xsPre, sortedBy, panicked, rayVars, worldVars, sceneVars>>

NextXs ==
    \/ \E object \in ObjectRefs, t \in TValues : Push(object, t)
    \/ Sort
    \/ Hit

SpecXs == InitXs /\ [][NextXs]_vars

----------------------------------------------------------------------------
(* SpecWorld: one World::color_at call on a ray, as the chain of nested
   color_at_impl calls it makes *)

PrimaryRays == {Ray_new, with_indices(Ray_new, <<One>>),
                with_indices(Ray_new, <<One, 1500000>>)}

InitWorld ==
    /\ world \in [lights : 0..MaxLights, max_recursive_depth : 0..MaxDepth]
    /\ frames = << >>
    /\ ret = [some |-> FALSE]
    /\ lastShade = [valid |-> FALSE]
    /\ underflow = FALSE
    /\ panicked = FALSE
    /\ IdleRay
    /\ IdleXs
    /\ IdleScene

Top == frames[Len(frames)]

\* World::color_at
ColorAt(r) ==
    /\ frames = << >>
    /\ ~ret.some
    /\ ~panicked
    /\ frames' = <<NewFrame(r, world.max_recursive_depth)>>
    /\ UNCHANGED <<world, ret, lastShade, underflow, panicked, rayVars, xsVars, sceneVars>>

\* color_at_impl up to the call of reflected_color in shade_hit: intersect,
\* hit, prepare_computations, is_shadowed
Intersect(object, cos_i) ==
    /\ frames # << >>
    /\ ~panicked
    /\ Top.pc = "intersect"
    /\ IF object = 0
       THEN \* xs.hit() is None
            /\ frames' = Return(Black)
            /\ ret' = IF Len(frames) = 1 THEN [some |-> TRUE, color |-> Black]
                      ELSE ret
            /\ UNCHANGED panicked
       ELSE LET res == prepare_computations(Top.ray, Objects[object].refractive_index)
            IN  IF res.panic \/ world.lights = 0
                THEN \* expect() on the empty stack, or self.lights[0]
                     /\ panicked' = TRUE
                     /\ UNCHANGED <<frames, ret>>
                ELSE /\ frames' = [frames EXCEPT ![Len(frames)] =
                            [Top EXCEPT !.ray = res.indices, !.object = object,
                                        !.n1 = res.n1, !.n2 = res.n2,
                                        !.cos_i = cos_i, !.pc = "reflected"]]
                     /\ UNCHANGED <<ret, panicked>>
    /\ UNCHANGED <<world, lastShade, underflow, rayVars, xsVars, sceneVars>>

\* reflected_color up to its recursive call
ReflectedColor ==
    /\ frames # << >>
    /\ ~panicked
    /\ Top.pc = "reflected"
    /\ IF reflected_color_spawns(Objects[Top.object], Top.remaining)
       THEN /\ frames' = Append([frames EXCEPT ![Len(frames)].pc = "reflected_wait"],
                                ChildFrame(reflect_ray(Top),
                                           child_remaining(Top.remaining)))
            /\ underflow' = (underflow \/ Top.remaining = 0)
       ELSE /\ frames' = [frames EXCEPT ![Len(frames)].reflected = Black,
                                        ![Len(frames)].pc = "refracted"]
            /\ UNCHANGED underflow
    /\ UNCHANGED <<world, ret, lastShade, panicked, rayVars, xsVars, sceneVars>>

\* refracted_color up to its recursive call
RefractedColor ==
    /\ frames # << >>
    /\ ~panicked
    /\ Top.pc = "refracted"
    /\ IF refracted_color_spawns(Objects[Top.object], Top.n1, Top.n2, Top.cos_i,
                                 Top.remaining)
       THEN /\ frames' = Append([frames EXCEPT ![Len(frames)].pc = "refracted_wait"],
                                ChildFrame(refract_ray(Top),
                                           child_remaining(Top.remaining)))
            /\ underflow' = (underflow \/ Top.remaining = 0)
       ELSE /\ frames' = [frames EXCEPT
                            ![Len(frames)].refracted = Black,
                            ![Len(frames)].total_internal =
                                refracted_color_total_internal(
                                    Objects[Top.object], Top.n1, Top.n2,
                                    Top.cos_i, Top.remaining),
                            ![Len(frames)].pc = "lighting"]
            /\ UNCHANGED underflow
    /\ UNCHANGED <<world, ret, lastShade, panicked, rayVars, xsVars, sceneVars>>

\* the rest of shade_hit: the lighting of every light, schlick, the sum
Lighting(lit, r) ==
    /\ frames # << >>
    /\ ~panicked
    /\ Top.pc = "lighting"
    /\ LET material == Objects[Top.object]
           surface_color == SumSeq(lit)
           reflectance == schlick(Top.n1, Top.n2, Top.cos_i, r)
           color == shade_hit_color(material, surface_color, Top.reflected,
                                    Top.refracted, reflectance)
       IN  /\ lastShade' = [valid |-> TRUE, object |-> Top.object,
                            remaining |-> Top.remaining,
                            surface_color |-> surface_color,
                            reflected |-> Top.reflected,
                            refracted |-> Top.refracted,
                            total_internal |-> Top.total_internal,
                            reflectance |-> reflectance, color |-> color]
           /\ frames' = Return(color)
           /\ ret' = IF Len(frames) = 1 THEN [some |-> TRUE, color |-> color]
                     ELSE ret
    /\ UNCHANGED <<world, underflow, panicked, rayVars, xsVars, sceneVars>>

NextWorld ==
    \/ \E r \in PrimaryRays : ColorAt(r)
    \/ \E object \in 0..Len(Objects), cos_i \in CosValues : Intersect(object, cos_i)
    \/ ReflectedColor
    \/ RefractedColor
    \/ \E lit \in [1..world.lights -> LightingColors], r \in Reflectances :
          Lighting(lit, r)

\* the program is sequential: a call that can take its next step takes it
SpecWorld == InitWorld /\ [][NextWorld]_vars /\ WF_vars(NextWorld)

----------------------------------------------------------------------------
(* SpecShadow: World::is_shadowed on a world of up to MaxShadowLights lights.
   The ray toward the first light meets the objects at the t values ts; for
   every further light, others says whether an object lies between the point
   and that light *)

InitShadow ==
    /\ world \in [lights : 0..MaxShadowLights, max_recursive_depth : {0}]
    /\ frames = << >>
    /\ ret = [some |-> FALSE]
    /\ lastShade = [valid |-> FALSE]
    /\ underflow = FALSE
    /\ panicked = FALSE
    /\ IdleRay /\ IdleXs
    /\ IdleShadow /\ IdleMatrix /\ IdleObject /\ IdleCamera /\ IdleCanvas
    /\ IdleRender
    /\ IdleUnits

IsShadowed(distance, ts, others) ==
    /\ ~panicked
    /\ ~shadow.some
    /\ IF world.lights = 0
       THEN \* self.lights[0]: index out of bounds
            /\ panicked' = TRUE
            /\ UNCHANGED shadow
       ELSE /\ \E intersections \in World_intersect(ts) :
                  shadow' = [some |-> TRUE, distance |-> distance, ts |-> ts,
                             others |-> others,
                             result |-> is_shadowed(intersections, distance)]
            /\ UNCHANGED panicked
    /\ UNCHANGED <<coreVars, unitVars, matrixVars, objectVars, cameraVars, canvasVars,
                   renderVars>>

NextShadow ==
    \E distance \in Distances, ts \in SeqsUpTo(TValues, MaxShadowXs),
       others \in [2..world.lights -> BOOLEAN] :
        IsShadowed(distance, ts, others)

SpecShadow == InitShadow /\ [][NextShadow]_vars

----------------------------------------------------------------------------
(* SpecMatrix: one chain of builder calls started from Matrix::id() *)

InitMatrix ==
    /\ matrix = Matrix_id
    /\ chain = << >>
    /\ panicked = FALSE
    /\ IdleCore
    /\ IdleShadow /\ IdleObject /\ IdleCamera /\ IdleCanvas /\ IdleRender
    /\ IdleUnits

Translate(x, y, z) ==
    /\ Len(chain) < MaxChain
    /\ matrix' = translate(matrix, x, y, z)
    /\ chain' = Append(chain, [op |-> "translate", args |-> <<x, y, z>>])
    /\ UNCHANGED <<panicked, coreVars, unitVars, shadowVars, objectVars, cameraVars,
                   canvasVars, renderVars>>

Scale(x, y, z) ==
    /\ Len(chain) < MaxChain
    /\ matrix' = scale(matrix, x, y, z)
    /\ chain' = Append(chain, [op |-> "scale", args |-> <<x, y, z>>])
    /\ UNCHANGED <<panicked, coreVars, unitVars, shadowVars, objectVars, cameraVars,
                   canvasVars, renderVars>>

RotateX(r) ==
    /\ Len(chain) < MaxChain
    /\ matrix' = rotate_x(matrix, r)
    /\ chain' = Append(chain, [op |-> "rotate_x", args |-> <<r>>])
    /\ UNCHANGED <<panicked, coreVars, unitVars, shadowVars, objectVars, cameraVars,
                   canvasVars, renderVars>>

RotateY(r) ==
    /\ Len(chain) < MaxChain
    /\ matrix' = rotate_y(matrix, r)
    /\ chain' = Append(chain, [op |-> "rotate_y", args |-> <<r>>])
    /\ UNCHANGED <<panicked, coreVars, unitVars, shadowVars, objectVars, cameraVars,
                   canvasVars, renderVars>>

RotateZ(r) ==
    /\ Len(chain) < MaxChain
    /\ matrix' = rotate_z(matrix, r)
    /\ chain' = Append(chain, [op |-> "rotate_z", args |-> <<r>>])
    /\ UNCHANGED <<panicked, coreVars, unitVars, shadowVars, objectVars, cameraVars,
                   canvasVars, renderVars>>

Shear(xy, xz, yx, yz, zx, zy) ==
    /\ Len(chain) < MaxChain
    /\ matrix' = shear(matrix, xy, xz, yx, yz, zx, zy)
    /\ chain' = Append(chain, [op |-> "shear", args |-> <<xy, xz, yx, yz, zx, zy>>])
    /\ UNCHANGED <<panicked, coreVars, unitVars, shadowVars, objectVars, cameraVars,
                   canvasVars, renderVars>>

\* the calls of tests::test_chain_transformations and of the other tests of
\* the builder, with angles of a quarter turn
NextMatrix ==
    \/ Translate(10, 5, 7)
    \/ Scale(5, 5, 5)
    \/ RotateX(1)
    \/ RotateY(1)
    \/ RotateZ(1)
    \/ Shear(1, 0, 0, 0, 0, 0)

SpecMatrix == InitMatrix /\ [][NextMatrix]_vars

----------------------------------------------------------------------------
(* SpecObject: an Object under set_transform and set_material *)

InitObject ==
    /\ anObject \in {Object_default(shape) : shape \in Shapes} \cup {new_glass_sphere}
    /\ objectOp = "new"
    /\ panicked = FALSE
    /\ IdleCore
    /\ IdleShadow /\ IdleMatrix /\ IdleCamera /\ IdleCanvas /\ IdleRender
    /\ IdleUnits

SetTransform(transform) ==
    /\ ~panicked
    /\ LET res == set_transform(anObject, transform)
       IN  /\ panicked' = res.panic
           /\ anObject' = res.object
    /\ objectOp' = "set_transform"
    /\ UNCHANGED <<coreVars, unitVars, shadowVars, matrixVars, cameraVars, canvasVars,
                   renderVars>>

SetMaterial(material) ==
    /\ ~panicked
    /\ anObject' = set_material(anObject, material)
    /\ objectOp' = "set_material"
    /\ UNCHANGED <<panicked, coreVars, unitVars, shadowVars, matrixVars, cameraVars,
                   canvasVars, renderVars>>

NextObject ==
    \/ \E transform \in Transforms : SetTransform(transform)
    \/ \E material \in Materials : SetMaterial(material)

SpecObject == InitObject /\ [][NextObject]_vars

----------------------------------------------------------------------------
(* SpecCamera: a Camera built by Camera::new, its transform assigned as the
   tests of camera.rs assign it, and ray_for_pixel *)

InitCamera ==
    /\ \E transform \in Transforms :
          /\ ~Camera_new(2, 2, transform).panic
          /\ camera = Camera_new(2, 2, transform).camera
    /\ camray = [some |-> FALSE]
    /\ panicked = FALSE
    /\ IdleCore
    /\ IdleShadow /\ IdleMatrix /\ IdleObject /\ IdleCanvas /\ IdleRender
    /\ IdleUnits

AssignTransform(transform) ==
    /\ camera' = assign_transform(camera, transform)
    /\ UNCHANGED <<camray, panicked, coreVars, unitVars, shadowVars, matrixVars,
                   objectVars, canvasVars, renderVars>>

RayForPixel ==
    /\ camray' = [some |-> TRUE, transform |-> camera.transform,
                  origin |-> ray_for_pixel_origin(camera)]
    /\ UNCHANGED <<camera, panicked, coreVars, unitVars, shadowVars, matrixVars,
                   objectVars, canvasVars, renderVars>>

NextCamera ==
    \/ \E transform \in {t \in Transforms : invertible(t)} :
          AssignTransform(transform)
    \/ RayForPixel

SpecCamera == InitCamera /\ [][NextCamera]_vars

----------------------------------------------------------------------------
(* SpecCanvas: a Canvas under write_pixel and to_ppm *)

\* (width, length) of the canvases: that of the tests of canvas.rs, one whose
\* rows are longer than a PPM line, and two without pixels
CanvasSizes == {<<5, 3>>, <<12, 2>>, <<0, 2>>, <<2, 0>>}

WriteXs == {0, 4, 5, 11, 12}

WriteYs == {0, 1, 2, 3}

InitCanvas ==
    /\ canvas \in {Canvas_new(size[1], size[2]) : size \in CanvasSizes}
    /\ written = << >>
    /\ lastWrite = [n |-> 0]
    /\ ppmText = [some |-> FALSE]
    /\ panicked = FALSE
    /\ IdleCore
    /\ IdleShadow /\ IdleMatrix /\ IdleObject /\ IdleCamera /\ IdleRender
    /\ IdleUnits

WritePixel(x, y, color) ==
    /\ ~panicked
    /\ lastWrite.n < MaxWrites
    /\ LET res == write_pixel(canvas, x, y, color)
       IN  /\ canvas' = res.canvas
           /\ panicked' = res.panic
           /\ lastWrite' = [n |-> lastWrite.n + 1, x |-> x, y |-> y,
                            color |-> color, panic |-> res.panic]
           /\ written' = IF res.panic THEN written
                         ELSE (<<x, y>> :> color) @@ written
    /\ ppmText' = [some |-> FALSE]
    /\ UNCHANGED <<coreVars, unitVars, shadowVars, matrixVars, objectVars, cameraVars,
                   renderVars>>

ToPpm ==
    /\ ~panicked
    /\ ppmText' = [some |-> TRUE, text |-> to_ppm(canvas)]
    /\ UNCHANGED <<canvas, written, lastWrite, panicked, coreVars, unitVars, shadowVars,
                   matrixVars, objectVars, cameraVars, renderVars>>

NextCanvas ==
    \/ \E x \in WriteXs, y \in WriteYs, color \in CanvasColors :
          WritePixel(x, y, color)
    \/ ToPpm

SpecCanvas == InitCanvas /\ [][NextCanvas]_vars

----------------------------------------------------------------------------
(* SpecRender: Camera::render.  scene gives, for the ray through each pixel,
   the object it hits first (0: none) and the colour shade_hit returns there;
   both are fixed by the world, the camera and the pixel *)

\* (hsize, vsize) of the cameras
RenderSizes == {<<2, 2>>, <<3, 1>>, <<1, 2>>}

ScenePoints == [object : {0, 1, 3}, shade : LightingColors]

next_pixel_skipping(self, x, y) ==
    IF x + 2 < self.hsize THEN [done |-> FALSE, x |-> x + 2, y |-> y]
    ELSE IF y + 1 < self.vsize THEN [done |-> FALSE, x |-> 0, y |-> y + 1]
    ELSE [done |-> TRUE, x |-> 0, y |-> 0]

\* the pixel after (x, y) in the loops of render, for y in 0..vsize and
\* for x in 0..hsize
next_pixel(self, x, y) ==
    IF x + 1 < self.hsize THEN [done |-> FALSE, x |-> x + 1, y |-> y]
    ELSE IF y + 1 < self.vsize THEN [done |-> FALSE, x |-> 0, y |-> y + 1]
    ELSE [done |-> TRUE, x |-> 0, y |-> 0]

\* World::color_at on the ray of a pixel that meets p: the colour, the ray's
\* indices afterwards, panic when prepare_computations or is_shadowed panics
color_at(w, r, p) ==
    IF p.object = 0 THEN [panic |-> FALSE, color |-> Black, indices |-> r]
    ELSE LET res == prepare_computations(r, Objects[p.object].refractive_index)
         IN  IF res.panic \/ w.lights = 0
             THEN [panic |-> TRUE, color |-> Black, indices |-> r]
             ELSE [panic |-> FALSE, color |-> p.shade, indices |-> res.indices]

InitRender ==
    /\ \E size \in RenderSizes :
          /\ camera = Camera_new(size[1], size[2], Matrix_id).camera
          /\ scene \in [(0..(size[1] - 1)) \X (0..(size[2] - 1)) -> ScenePoints]
    /\ world \in [lights : 0..MaxLights, max_recursive_depth : {0}]
    /\ image = Canvas_new(0, 0)
    /\ cursor = [pc |-> "idle"]
    /\ pixray = Ray_new
    /\ camray = [some |-> FALSE]
    /\ frames = << >>
    /\ ret = [some |-> FALSE]
    /\ lastShade = [valid |-> FALSE]
    /\ underflow = FALSE
    /\ panicked = FALSE
    /\ IdleRay /\ IdleXs
    /\ IdleShadow /\ IdleMatrix /\ IdleObject /\ IdleCanvas
    /\ IdleUnits

\* render up to its loops: Canvas::new(self.hsize, self.vsize)
Render ==
    /\ cursor.pc = "idle"
    /\ image' = Canvas_new(camera.hsize, camera.vsize)
    /\ cursor' = [pc |-> "ray_for_pixel", x |-> 0, y |-> 0]
    /\ UNCHANGED <<scene, pixray, panicked, coreVars, unitVars, shadowVars, matrixVars,
                   objectVars, cameraVars, canvasVars>>

\* let ray = self.ray_for_pixel(x, y)
RenderRayForPixel ==
    /\ cursor.pc = "ray_for_pixel"
    /\ ~panicked
    /\ pixray' = Ray_new
    /\ cursor' = [cursor EXCEPT !.pc = "color_at"]
    /\ UNCHANGED <<scene, image, panicked, coreVars, unitVars, shadowVars, matrixVars,
                   objectVars, cameraVars, canvasVars>>

\* let color = world.color_at(&ray)
RenderColorAt ==
    /\ cursor.pc = "color_at"
    /\ ~panicked
    /\ LET res == color_at(world, pixray, scene[<<cursor.x, cursor.y>>])
       IN  /\ panicked' = res.panic
           /\ pixray' = res.indices
           /\ cursor' = IF res.panic THEN cursor
                        ELSE [pc |-> "write_pixel", x |-> cursor.x,
                              y |-> cursor.y, color |-> res.color]
    /\ UNCHANGED <<scene, image, coreVars, unitVars, shadowVars, matrixVars, objectVars,
                   cameraVars, canvasVars>>

\* image.write_pixel(x, y, color) and the step of the loops
RenderWritePixel ==
    /\ cursor.pc = "write_pixel"
    /\ ~panicked
    /\ LET res == write_pixel(image, cursor.x, cursor.y,
                              Color_new(cursor.color, cursor.color, cursor.color))
           next == next_pixel(camera, cursor.x, cursor.y)
       IN  /\ panicked' = res.panic
           /\ image' = res.canvas
           /\ cursor' = IF res.panic THEN cursor
                        ELSE IF next.done THEN [pc |-> "done"]
                        ELSE [pc |-> "ray_for_pixel", x |-> next.x, y |-> next.y]
    /\ UNCHANGED <<scene, pixray, coreVars, unitVars, shadowVars, matrixVars, objectVars,
                   cameraVars, canvasVars>>

NextRender ==
    \/ Render
    \/ RenderRayForPixel
    \/ RenderColorAt
    \/ RenderWritePixel

SpecRender == InitRender /\ [][NextRender]_vars

----------------------------------------------------------------------------
(* SpecShape: an Object built by one of the constructors of object.rs, given
   a transform, and intersected with a ray, through Object::intersect or by
   handing a Shape and the Object to Shape::intersect *)

\* bounds handed to the constructors: 0.1, 0.5, 2.0 on either side of the
\* origin, and none
ShapeBounds ==
    {<<-2, 2>>, <<-10, 10>>, <<-40, 40>>, <<NEG_INFINITY, INFINITY>>}

Constructors ==
    {[name |-> n, minimum |-> 0, maximum |-> 0] :
        n \in {"new_sphere", "new_plane", "new_cube"}}
    \cup {[name |-> n, minimum |-> b[1], maximum |-> b[2]] :
            n \in {"new_cylinder", "new_cone"}, b \in ShapeBounds}
    \cup {[name |-> n, minimum |-> b[1], maximum |-> b[2]] :
            n \in {"new_closed_cylinder", "new_closed_cone"},
            b \in ShapeBounds \ {<<NEG_INFINITY, INFINITY>>}}

\* the Object a constructor call returns
Construct(call) ==
    CASE call.name = "new_sphere" -> new_sphere
      [] call.name = "new_plane" -> new_plane
      [] call.name = "new_cube" -> new_cube
      [] call.name = "new_cylinder" -> new_cylinder(call.minimum, call.maximum)
      [] call.name = "new_closed_cylinder" ->
            new_closed_cylinder(call.minimum, call.maximum)
      [] call.name = "new_cone" -> new_cone(call.minimum, call.maximum)
      [] call.name = "new_closed_cone" ->
            new_closed_cone(call.minimum, call.maximum)

\* transforms handed to set_transform; the last one is singular
ShapeTransforms ==
    {Matrix_id, translate(Matrix_id, 0, 1, 0), rotate_y(Matrix_id, 1),
     scale(Matrix_id, 0, 1, 1)}

\* rays of the tests of the kernels (directions not normalized), and upward
\* rays 0.6 and 1.5 away from the y axis
ShapeRays ==
    {[origin |-> <<0, 0, -5 * Q>>, direction |-> <<0, 0, Q>>],
     [origin |-> <<0, 0, -5 * Q>>, direction |-> <<0, Q, 0>>],
     [origin |-> <<0, 0, -5 * Q>>, direction |-> <<0, Q, Q>>],
     [origin |-> <<0, 0, -Q>>, direction |-> <<0, Q, Q>>],
     [origin |-> <<0, 0, -5>>, direction |-> <<0, Q, Q>>],
     [origin |-> <<0, 0, -5>>, direction |-> <<0, Q, 0>>],
     [origin |-> <<0, 10, 0>>, direction |-> <<0, 0, Q>>],
     [origin |-> <<12, -3 * Q, 0>>, direction |-> <<0, Q, 0>>],
     [origin |-> <<30, -3 * Q, 0>>, direction |-> <<0, Q, 0>>]}

\* Shape values handed to Shape::intersect directly: the cube, as the tests
\* of cube.rs do, and closed cones, which no constructor of Object builds
DirectShapes ==
    {Shape_Cube}
    \cup {Shape_Cone(b[1], b[2], TRUE) :
            b \in ShapeBounds \ {<<NEG_INFINITY, INFINITY>>}}

\* the rays a shape is intersected with: the sphere kernel divides by the
\* length of the direction
RaysFor(shape) ==
    IF shape.variant = "Sphere"
    THEN {r \in ShapeRays :
            LET m2 == dot_product(r.direction, r.direction)
            IN  f64_sqrt(m2) * f64_sqrt(m2) = m2}
    ELSE ShapeRays

InitShape ==
    /\ builtBy \in Constructors
    /\ shapeObject = Construct(builtBy)
    /\ found = [some |-> FALSE]
    /\ panicked = FALSE
    /\ IdleCore
    /\ IdleShadow /\ IdleMatrix /\ IdleObject /\ IdleCamera /\ IdleCanvas
    /\ IdleRender /\ IdleLighting /\ IdleAgain

\* set_transform takes the Object by value, as a step of building it
ShapeSetTransform(transform) ==
    /\ ~panicked
    /\ ~found.some
    /\ LET res == set_transform(shapeObject, transform)
       IN  /\ panicked' = res.panic
           /\ shapeObject' = res.object
    /\ found' = [some |-> FALSE]
    /\ UNCHANGED <<builtBy, coreVars, shadowVars, matrixVars, objectVars,
                   cameraVars, canvasVars, renderVars, lightingVars,
                   againVars>>

\* Object::intersect
ObjectIntersect(r) ==
    /\ ~panicked
    /\ r \in RaysFor(shapeObject.shape)
    /\ found' = [some |-> TRUE, by |-> "Object::intersect",
                 shape |-> shapeObject.shape, ray |-> r,
                 xs |-> Object_intersect(shapeObject, r)]
    /\ UNCHANGED <<shapeObject, builtBy, panicked, coreVars, shadowVars,
                   matrixVars, objectVars, cameraVars, canvasVars, renderVars,
                   lightingVars, againVars>>

\* Shape::intersect, called with a Shape value and the Object
ShapeIntersect(shape, r) ==
    /\ ~panicked
    /\ r \in RaysFor(shape)
    /\ found' = [some |-> TRUE, by |-> "Shape::intersect", shape |-> shape,
                 ray |-> r, xs |-> Shape_intersect(shape, r, shapeObject)]
    /\ UNCHANGED <<shapeObject, builtBy, panicked, coreVars, shadowVars,
                   matrixVars, objectVars, cameraVars, canvasVars, renderVars,
                   lightingVars, againVars>>

NextShape ==
    \/ \E transform \in ShapeTransforms : ShapeSetTransform(transform)
    \/ \E r \in ShapeRays : ObjectIntersect(r)
    \/ \E shape \in DirectShapes, r \in ShapeRays : ShapeIntersect(shape, r)

SpecShape == InitShape /\ [][NextShape]_vars

----------------------------------------------------------------------------
(* SpecLighting: Material::lighting on materials with and without
   does_cast_shadow, called on its own as the tests of material.rs call it,
   or as shade_hit calls it, with the value World::is_shadowed returned; the
   objects of that World have the materials casters describes *)

LitMaterials ==
    {Material_default, with_shadow(Material_default, FALSE),
     with_shadow(with_pattern_color(Material_default, 500), FALSE),
     with_pattern_color(Material_default, 500)}

\* light.intensity()
Intensities == {1000, 500}

\* lightv . normalv and reflectv . eyev: -1, 0, cos 45, 1
DotProducts == {-One, 0, 707107, One}

InitLighting ==
    /\ casters \in [ObjectRefs -> BOOLEAN]
    /\ shaded = [some |-> FALSE]
    /\ verdict = [some |-> FALSE]
    /\ panicked = FALSE
    /\ IdleCore
    /\ IdleShadow /\ IdleMatrix /\ IdleObject /\ IdleCamera /\ IdleCanvas
    /\ IdleRender /\ IdleShape /\ IdleAgain

\* Material::lighting
LightingCall(material, intensity, light_dot_normal, reflect_dot_eye, in_shadow) ==
    /\ ~shaded.some
    /\ verdict.some => in_shadow = verdict.result
    /\ shaded' = [some |-> TRUE, material |-> material, intensity |-> intensity,
                  light_dot_normal |-> light_dot_normal,
                  reflect_dot_eye |-> reflect_dot_eye, in_shadow |-> in_shadow,
                  result |-> lighting(material, intensity, light_dot_normal,
                                      reflect_dot_eye, in_shadow)]
    /\ UNCHANGED <<casters, verdict, panicked, coreVars, shadowVars, matrixVars,
                   objectVars, cameraVars, canvasVars, renderVars, shapeVars,
                   againVars>>

\* World::is_shadowed on a World with one light; the objects, whatever their
\* materials, give the ray toward the light the intersections at ts
IsShadowedAmong(distance, ts) ==
    /\ ~verdict.some
    /\ ~shaded.some
    /\ \E intersections \in World_intersect(ts) :
          verdict' = [some |-> TRUE, distance |-> distance, ts |-> ts,
                      hit |-> hit(intersections),
                      result |-> is_shadowed(intersections, distance)]
    /\ UNCHANGED <<casters, shaded, panicked, coreVars, shadowVars, matrixVars,
                   objectVars, cameraVars, canvasVars, renderVars, shapeVars,
                   againVars>>

NextLighting ==
    \/ \E material \in LitMaterials, intensity \in Intensities,
          light_dot_normal \in DotProducts, reflect_dot_eye \in DotProducts,
          in_shadow \in BOOLEAN :
            LightingCall(material, intensity, light_dot_normal, reflect_dot_eye,
                         in_shadow)
    \/ \E distance \in Distances, ts \in SeqsUpTo(TValues, MaxShadowXs) :
          IsShadowedAmong(distance, ts)

SpecLighting == InitLighting /\ [][NextLighting]_vars

----------------------------------------------------------------------------
(* SpecAgain: World::color_at called again and again on one ray.  strata
   says what that ray meets: the object it hits first (0: none), whether an
   opaque floor of the default material, Objects[1], lies behind that object,
   eyev . normalv at the hit, and the colour Material::lighting gives each of
   the two surfaces for one light.  Nothing lies on the side the ray comes
   from.  The world, the origin and the direction of the ray are the same in
   every call; the ray's indices are as the call before left them. *)

\* the objects whose colour shade_hit sums without the schlick reflectance
AgainObjects ==
    {o \in 1..Len(Objects) :
        ~(Objects[o].reflective > 0 /\ Objects[o].transparency > 0)}

Strata ==
    [object : {0} \cup AgainObjects, floor : BOOLEAN, cos_i : CosValues,
     shade : LightingColors, floor_shade : LightingColors]

AgainRays == {Ray_new, with_indices(Ray_new, <<One>>),
              with_indices(Ray_new, <<One, 1500000>>),
              with_indices(Ray_new, <<One, 1500005>>)}

\* self.lights.iter().map(|light| ...lighting(...)).sum()
surface_color(w, shade) == SumSeq([i \in 1..w.lights |-> shade])

\* color_at_impl on the ray refracted_color spawned: it meets the floor, if
\* there is one, and the floor neither reflects nor refracts
color_at_impl_behind(w, s, r, remaining_recursions) ==
    IF ~s.floor THEN [panic |-> FALSE, color |-> Black]
    ELSE LET material == Objects[1]
             comps == prepare_computations(r.indices, material.refractive_index)
         IN  IF comps.panic \/ w.lights = 0
             THEN [panic |-> TRUE, color |-> Black]
             ELSE [panic |-> FALSE,
                   color |-> shade_hit_color(material,
                                             surface_color(w, s.floor_shade),
                                             Black, Black, One)]

\* World::reflected_color: the reflected ray leaves on the side the ray came
\* from and meets nothing, so its color_at_impl returns black
reflected_color(w, s, material, comps, remaining_recursions) ==
    IF ~reflected_color_spawns(material, remaining_recursions) THEN Black
    ELSE Color_mul(Black, material.reflective)

refracted_color_any_material(w, s, material, comps, remaining_recursions) ==
    IF remaining_recursions = 0 \/ sin2_t_gt_1(comps.n1, comps.n2, s.cos_i)
    THEN [panic |-> FALSE, color |-> Black]
    ELSE color_at_impl_behind(w, s, refract_ray(comps),
                              child_remaining(remaining_recursions))

\* World::refracted_color
refracted_color(w, s, material, comps, remaining_recursions) ==
    IF ~refracted_color_spawns(material, comps.n1, comps.n2, s.cos_i,
                               remaining_recursions)
    THEN [panic |-> FALSE, color |-> Black]
    ELSE LET child == color_at_impl_behind(w, s, refract_ray(comps),
                                           child_remaining(remaining_recursions))
         IN  [panic |-> child.panic,
              color |-> Color_mul(child.color, material.transparency)]

\* World::color_at_impl on the ray itself: the colour, the ray's indices
\* afterwards, whether the ray hit an object; shade_hit takes the branch
\* without schlick for every object of AgainObjects
color_at_impl(w, s, r, remaining_recursions) ==
    IF s.object = 0
    THEN [panic |-> FALSE, color |-> Black, indices |-> r]
    ELSE LET material == Objects[s.object]
             comps == prepare_computations(r, material.refractive_index)
             reflected == reflected_color(w, s, material, comps,
                                          remaining_recursions)
             refracted == refracted_color(w, s, material, comps,
                                          remaining_recursions)
         IN  IF comps.panic \/ w.lights = 0
             THEN [panic |-> TRUE, color |-> Black, indices |-> r]
             ELSE IF refracted.panic
             THEN [panic |-> TRUE, color |-> Black, indices |-> comps.indices]
             ELSE [panic |-> FALSE,
                   color |-> shade_hit_color(material,
                                             surface_color(w, s.shade),
                                             reflected, refracted.color, One),
                   indices |-> comps.indices]

InitAgain ==
    /\ ray \in AgainRays
    /\ made = IF ray = Ray_new THEN "new" ELSE "with_indices"
    /\ calls = << >>
    /\ world \in [lights : 0..MaxLights, max_recursive_depth : 0..MaxDepth]
    /\ strata \in Strata
    /\ colours = << >>
    /\ frames = << >>
    /\ ret = [some |-> FALSE]
    /\ lastShade = [valid |-> FALSE]
    /\ underflow = FALSE
    /\ panicked = FALSE
    /\ IdleXs
    /\ IdleShadow /\ IdleMatrix /\ IdleObject /\ IdleCamera /\ IdleCanvas
    /\ IdleRender /\ IdleShape /\ IdleLighting

\* world.color_at(&mut ray)
ColorAtAgain ==
    /\ ~panicked
    /\ Len(colours) < MaxCalls
    /\ LET res == color_at_impl(world, strata, ray, world.max_recursive_depth)
       IN  /\ panicked' = res.panic
           /\ ray' = res.indices
           /\ colours' = Append(colours, [before |-> ray,
                                          after |-> res.indices,
                                          color |-> res.color,
                                          panic |-> res.panic])
    /\ UNCHANGED <<strata, made, calls, xsVars, worldVars, shadowVars,
                   matrixVars, objectVars, cameraVars, canvasVars, renderVars,
                   shapeVars, lightingVars>>

NextAgain == ColorAtAgain

SpecAgain == InitAgain /\ [][NextAgain]_vars

----------------------------------------------------------------------------
(* Properties of the refractive-index stack (SpecRay) *)

Returned == {i \in 1..Len(calls) : ~calls[i].panic}

\* C1: in every reachable state of a ray the index stack is non-empty and its
\* first element is the vacuum index 1.0, and prepare_computations never
\* finds it empty (never panics).
C1_VacuumAlwaysPresent ==
    /\ ~panicked
    /\ ray # << >>
    /\ ray[1] = Vacuum

TestKs == <<1500000, 2000000, 2500000, 2000000, 2500000, 1500000>>

TestPairs == << <<One, 1500000>>, <<1500000, 2000000>>, <<2000000, 2500000>>,
                <<2500000, 2500000>>, <<2500000, 1500000>>, <<1500000, One>> >>

\* C2: on a ray built by Ray::new (in vacuum), the calls for the intersection
\* sequence A, B, C, B, C, A with indices 1.5, 2.0, 2.5 report the pairs
\* (1.0,1.5), (1.5,2.0), (2.0,2.5), (2.5,2.5), (2.5,1.5), (1.5,1.0) in order.
C2_TestSequencePairs ==
    (/\ made = "new"
     /\ Len(calls) <= Len(TestKs)
     /\ \A i \in 1..Len(calls) : calls[i].k = TestKs[i])
    => \A i \in 1..Len(calls) :
          /\ ~calls[i].panic
          /\ <<calls[i].n1, calls[i].n2>> = TestPairs[i]

\* C3: for every call that handled an intersection with an object of index k,
\* is_entering holds exactly when no element of the stack before the call is
\* approximately equal to k, and n1 is the last element of that stack.
C3_EnteringAndN1 ==
    \A i \in Returned :
        LET c == calls[i]
        IN  /\ c.is_entering
                <=> (\A j \in 1..Len(c.before) : abs(c.before[j] - c.k) > EPSILON)
            /\ c.before # << >>
            /\ c.n1 = c.before[Len(c.before)]

\* a call classified as exiting through an element that is approximately but
\* not exactly equal to k, and a call classified as entering, both happened
C3_Witness ==
    /\ \E i \in Returned :
          /\ ~calls[i].is_entering
          /\ \A j \in 1..Len(calls[i].before) : calls[i].before[j] # calls[i].k
    /\ \E i \in Returned :
          calls[i].is_entering /\ Len(calls[i].before) >= 2

\* C4: a call classified as entering reports n2 = k and leaves the stack as
\* the previous stack with k appended as the new top, nothing else changed.
C4_EnteringPushes ==
    \A i \in Returned :
        calls[i].is_entering =>
            /\ calls[i].n2 = calls[i].k
            /\ Len(calls[i].after) = Len(calls[i].before) + 1
            /\ \A j \in 1..Len(calls[i].before) :
                  calls[i].after[j] = calls[i].before[j]
            /\ calls[i].after[Len(calls[i].after)] = calls[i].k

C4_Witness ==
    \E i \in Returned :
        /\ calls[i].is_entering
        /\ Len(calls[i].before) >= 2
        /\ calls[i].before[1] # calls[i].k

\* C5: a call classified as exiting removes every stack element approximately
\* equal to k, keeps the other elements in order, and reports as n2 the top of
\* the stack after the removal.
C5_ExitingRemovesApprox ==
    \A i \in Returned :
        ~calls[i].is_entering =>
            /\ calls[i].after =
                 SelectSeq(calls[i].before,
                           LAMBDA o : abs(o - calls[i].k) > EPSILON)
            /\ calls[i].after # << >>
                 => calls[i].n2 = calls[i].after[Len(calls[i].after)]

----------------------------------------------------------------------------
(* Properties of Intersections (SpecXs) *)

NonNegative(v) == {i \in 1..Len(v) : ~is_nan(v[i].t) /\ v[i].t >= 0}

Ascending(v) ==
    \A i, j \in 1..Len(v) :
        i < j => \/ is_nan(v[j].t)
                 \/ (~is_nan(v[i].t) /\ v[i].t <= v[j].t)

\* C6 as claimed: for any collection, in whatever order its elements were
\* inserted, hit() returns the intersection with the smallest t among those
\* with t >= 0, and none exactly when no element has t >= 0.
C6_HitIsSmallestNonNegative ==
    hitres.some =>
        LET v == hitres.of
        IN  /\ hitres.res.some <=> NonNegative(v) # {}
            /\ hitres.res.some =>
                  /\ \E i \in NonNegative(v) : v[i] = hitres.res.i
                  /\ \A i \in NonNegative(v) : hitres.res.i.t <= v[i].t

\* C6 as amended: hit() returns the first element in stored order with
\* t >= 0, none exactly when no element has t >= 0; when the collection is in
\* ascending order of t (as sort() leaves it) that element has the smallest
\* t among those with t >= 0.
C6_HitIsFirstNonNegative ==
    hitres.some =>
        LET v == hitres.of
        IN  /\ hitres.res.some <=> NonNegative(v) # {}
            /\ hitres.res.some =>
                  /\ \E i \in NonNegative(v) :
                        /\ v[i] = hitres.res.i
                        /\ \A j \in NonNegative(v) : i <= j
                  /\ Ascending(v) =>
                        \A i \in NonNegative(v) : hitres.res.i.t <= v[i].t

\* hit() ran on a sorted collection holding a negative t, t = 0 and a larger t
C6_Witness ==
    /\ hitres.some
    /\ hitres.res.some
    /\ Len(hitres.of) = 3
    /\ Ascending(hitres.of)
    /\ hitres.of[1].t < 0
    /\ hitres.res.i.t = 0
    /\ hitres.of[3].t > 0

Count(v, e) == Cardinality({i \in 1..Len(v) : v[i] = e})

\* C7: after sort() the elements are in ascending order of t with every NaN
\* after all non-NaN ones, and the collection holds exactly the intersections
\* it held before (same t, same object, same multiplicity).
C7_SortAscendingPermutation ==
    sortedBy =>
        /\ \A i, j \in 1..Len(xs) :
              (i < j /\ ~is_nan(xs[j].t)) => (~is_nan(xs[i].t) /\ xs[i].t <= xs[j].t)
        /\ Len(xs) = Len(xsPre)
        /\ \A i \in 1..Len(xsPre) : Count(xs, xsPre[i]) = Count(xsPre, xsPre[i])

\* sort() ran on a collection that began with a NaN and was not ascending
C7_Witness ==
    /\ sortedBy
    /\ Len(xsPre) = 3
    /\ is_nan(xsPre[1].t)
    /\ ~is_nan(xsPre[2].t) /\ ~is_nan(xsPre[3].t)
    /\ xsPre[2].t > xsPre[3].t
    /\ xsPre[2].object # xsPre[3].object

----------------------------------------------------------------------------
(* Properties of the recursive shading (SpecWorld) *)

C9_BlackAtDepthZero ==
    /\ \A i \in 1..Len(frames) :
          frames[i].remaining = 0 =>
              /\ i = Len(frames)
              /\ frames[i].pc \notin {"reflected_wait", "refracted_wait"}
              /\ frames[i].reflected = 0
              /\ frames[i].refracted = 0
    /\ (lastShade.valid /\ lastShade.remaining = 0) =>
          (lastShade.reflected = 0 /\ lastShade.refracted = 0)

\* both functions ran with remaining depth 0 on a reflective, transparent
\* surface hit without total internal reflection
C9_Witness ==
    /\ frames # << >>
    /\ frames[Len(frames)].remaining = 0
    /\ frames[Len(frames)].pc = "lighting"
    /\ Objects[frames[Len(frames)].object].reflective > 0
    /\ Objects[frames[Len(frames)].object].transparency > EPSILON
    /\ frames[Len(frames)].n1 <= frames[Len(frames)].n2

\* C10: shade_hit weights the reflected colour by the Schlick reflectance and
\* the refracted colour by (1 - reflectance) exactly when the material has
\* reflective > 0 and transparency > 0; otherwise it returns the plain sum
\* surface + reflected + refracted.
C10_ShadeHitWeights ==
    lastShade.valid =>
        LET m == Objects[lastShade.object]
            weighted == lastShade.surface_color
                        + (lastShade.reflected * lastShade.reflectance) \div One
                        + (lastShade.refracted * (One - lastShade.reflectance)) \div One
            plain == lastShade.surface_color + lastShade.reflected
                     + lastShade.refracted
        IN  /\ (m.reflective > 0 /\ m.transparency > 0) => lastShade.color = weighted
            /\ ~(m.reflective > 0 /\ m.transparency > 0) => lastShade.color = plain

\* shade_hit weighted a non-black refracted colour, and the weighted colour
\* differs from the plain sum
C10_Witness ==
    /\ lastShade.valid
    /\ Objects[lastShade.object].reflective > 0
    /\ Objects[lastShade.object].transparency > 0
    /\ lastShade.refracted > 0
    /\ lastShade.reflectance > 0
    /\ lastShade.reflectance < One
    /\ lastShade.color # lastShade.surface_color + lastShade.reflected
                         + lastShade.refracted

\* C11: whenever refracted_color returned black because sin2_t > 1.0 (total
\* internal reflection), schlick on the same state returns exactly 1.0, so a
\* reflective and transparent surface contributes its full reflected colour
\* and no refracted colour.
C11_TotalInternalReflectionConsistent ==
    (lastShade.valid /\ lastShade.total_internal) =>
        /\ lastShade.reflectance = One
        /\ lastShade.refracted = Black
        /\ (/\ Objects[lastShade.object].reflective > 0
            /\ Objects[lastShade.object].transparency > 0)
              => lastShade.color = lastShade.surface_color + lastShade.reflected

\* shade_hit completed on a lit, reflective and transparent surface whose
\* refracted_color took the sin2_t > 1.0 branch
C11_Witness ==
    /\ lastShade.valid
    /\ lastShade.total_internal
    /\ lastShade.remaining > 0
    /\ lastShade.surface_color > 0
    /\ Objects[lastShade.object].reflective > 0
    /\ Objects[lastShade.object].transparency > 0

\* C20: every reflected or refracted child call runs on a new Ray with its own
\* index stack (empty for a reflected ray, [n2 of the parent] for a refracted
\* one); the stack of a call's ray is changed only by that call's own
\* prepare_computations, never by a child call or by a sibling of it.
C20_ChildRaysOwnStack ==
    [][/\ \A i \in 1..Len(frames) :
             (i <= Len(frames') /\ frames'[i].ray # frames[i].ray)
                 => (i = Len(frames) /\ frames[i].pc = "intersect"
                     /\ Len(frames') = Len(frames))
       /\ Len(frames') > Len(frames) /\ frames # << >> =>
             LET parent == frames[Len(frames)]
                 child == frames'[Len(frames')]
             IN  \/ parent.pc = "reflected" /\ child.ray = Ray_new
                 \/ parent.pc = "refracted"
                       /\ child.ray = with_indices(Ray_new, <<parent.n2>>)]_vars

\* a refracted child call, made after its reflected sibling returned, has
\* changed its own stack by prepare_computations while its parent waits
C20_Witness ==
    /\ Len(frames) >= 2
    /\ frames[1].pc = "refracted_wait"
    /\ Objects[frames[1].object].reflective > 0
    /\ frames[2].pc \in {"reflected", "refracted", "lighting"}
    /\ frames[2].ray # with_indices(Ray_new, <<frames[1].n2>>)
    /\ frames[2].ray # frames[1].ray

\* C21: the child call refracted_color makes runs on a ray that starts at
\* under_point and whose index stack is exactly [n2] of the parent's
\* intersection state; the child call reflected_color makes runs on a ray that
\* starts at over_point and has the stack Ray::new gives every ray.
C21_ChildRayOriginAndStack ==
    \A i \in 2..Len(frames) :
        LET parent == frames[i - 1]
            child == frames[i]
        IN  /\ parent.pc \in {"reflected_wait", "refracted_wait"}
            /\ parent.pc = "refracted_wait" =>
                  /\ child.origin = "under_point"
                  /\ child.pc = "intersect" =>
                        get_indices(child.ray) = <<parent.n2>>
            /\ parent.pc = "reflected_wait" =>
                  /\ child.origin = "over_point"
                  /\ child.pc = "intersect" =>
                        get_indices(child.ray) = get_indices(Ray_new)

\* a refracted child has just been spawned by a parent whose n1 and n2 differ,
\* after that parent's reflected child had returned
C21_Witness ==
    /\ Len(frames) = 2
    /\ frames[1].pc = "refracted_wait"
    /\ frames[1].n1 # frames[1].n2
    /\ Objects[frames[1].object].reflective > 0
    /\ frames[1].remaining > 0
    /\ frames[2].pc = "intersect"
    /\ frames[2].origin = "under_point"
    /\ get_indices(frames[2].ray) = <<frames[1].n2>>

----------------------------------------------------------------------------
(* Properties of World::is_shadowed (SpecShadow) *)

\* C12: is_shadowed considers the first light only and returns true exactly
\* when the ray toward that light has a hit (the smallest t >= 0 over all
\* intersections) with t smaller than the distance to the light; objects
\* behind the light (t >= distance) or behind the point (t < 0) do not shadow.
C12_ShadowedByFirstLightHit ==
    shadow.some =>
        LET ts == shadow.ts
            nonneg == {i \in 1..Len(ts) : ~is_nan(ts[i]) /\ ts[i] >= 0}
        IN  shadow.result
                <=> \E i \in nonneg : /\ \A j \in nonneg : ts[i] <= ts[j]
                                      /\ ts[i] < shadow.distance

\* is_shadowed returned false for a point with one object behind it and one
\* behind the first light, while an object blocks the second light
C12_Witness ==
    /\ shadow.some
    /\ world.lights = 2
    /\ shadow.others[2]
    /\ ~shadow.result
    /\ shadow.distance = 1
    /\ shadow.ts = <<2, -1>>

----------------------------------------------------------------------------
(* Properties of the transform builder (SpecMatrix) *)

\* the matrix of one builder call
OpMatrix(c) ==
    CASE c.op = "translate" -> translation(c.args[1], c.args[2], c.args[3])
      [] c.op = "scale" -> scaling(c.args[1], c.args[2], c.args[3])
      [] c.op = "rotate_x" -> rotation_x(c.args[1])
      [] c.op = "rotate_y" -> rotation_y(c.args[1])
      [] c.op = "rotate_z" -> rotation_z(c.args[1])
      [] c.op = "shear" -> shearing(c.args[1], c.args[2], c.args[3],
                                    c.args[4], c.args[5], c.args[6])

\* op_n * ... * op_1 * I
RECURSIVE ChainProduct(_)
ChainProduct(c) ==
    IF c = << >> THEN Matrix_id
    ELSE Matrix_mul(OpMatrix(c[Len(c)]), ChainProduct(SubSeq(c, 1, Len(c) - 1)))

\* op_n * (... * (op_1 * p))
RECURSIVE ChainApply(_, _)
ChainApply(c, p) ==
    IF c = << >> THEN p
    ELSE Matrix_mul_point(OpMatrix(c[Len(c)]),
                          ChainApply(SubSeq(c, 1, Len(c) - 1), p))

\* the point of tests::test_chain_transformations and one off every axis
TestPoints == {<<1, 0, 1>>, <<2, 3, 4>>}

\* C13: every builder operation pre-multiplies the matrix it is called on: a
\* chain op_1 ... op_n started from the identity yields op_n * ... * op_1 * I,
\* applying it to a point p equals op_n * (... * (op_1 * p)), and no operation
\* discards the transforms accumulated before it.
C13_ChainPreMultiplies ==
    /\ matrix = ChainProduct(chain)
    /\ \A p \in TestPoints : Matrix_mul_point(matrix, p) = ChainApply(chain, p)

----------------------------------------------------------------------------
(* Properties of Object and Camera (SpecObject, SpecCamera) *)

\* C14: in every reachable state of an Object, transform_inverse is the
\* inverse of transform and transform_inverse_transpose is the transpose of
\* transform_inverse, and set_material leaves all three matrices unchanged.
C14_ObjectCachesConsistent ==
    /\ [](/\ Matrix_mul(anObject.transform, anObject.transform_inverse) = Matrix_id
          /\ Matrix_mul(anObject.transform_inverse, anObject.transform) = Matrix_id
          /\ \A i, j \in 1..MATRIX_SIZE :
                anObject.transform_inverse_transpose[i][j]
                    = anObject.transform_inverse[j][i])
    /\ [][objectOp' = "set_material" =>
            /\ anObject'.transform = anObject.transform
            /\ anObject'.transform_inverse = anObject.transform_inverse
            /\ anObject'.transform_inverse_transpose
                  = anObject.transform_inverse_transpose]_vars

\* set_material ran on a glass object whose transform, set before, has an
\* inverse that is not its own transpose
C14_Witness ==
    /\ objectOp = "set_material"
    /\ anObject.material # Material_new
    /\ anObject.transform # Matrix_id
    /\ anObject.transform_inverse # anObject.transform
    /\ anObject.transform_inverse_transpose # anObject.transform_inverse

\* rotate_y * translate(0, -2, 5), the transform of
\* tests::ray_when_camera_is_transformed with the rotation a quarter turn
TestCameraTransform ==
    Matrix_mul(rotate_y(Matrix_id, 1), translate(Matrix_id, 0, -2, 5))

\* C15: whenever a Camera's transform is changed its cached inverse is
\* refreshed with it: in every state transform_inverse is the inverse of the
\* current transform, so a camera whose transform was set to
\* rotate_y * translate(0, -2, 5) produces rays with origin (0, 2, -5).
C15_CameraInverseRefreshed ==
    /\ Matrix_mul(camera.transform, camera.transform_inverse) = Matrix_id
    /\ (camray.some /\ camray.transform = TestCameraTransform)
          => camray.origin = <<0, 2, -5>>

----------------------------------------------------------------------------
(* Properties of Canvas (SpecCanvas) *)

Pixels(c) == {pos \in (0..(c.width - 1)) \X (0..(c.length - 1)) : TRUE}

\* C16: write_pixel(x, y, c) panics when x >= width or y >= height and then
\* changes no pixel; otherwise it sets exactly pixel (x, y) to c and leaves
\* every other pixel unchanged, so pixel_at(x, y) returns the colour of the
\* last write to (x, y), or black if it was never written.
C16_WritePixelBoundsAndEffect ==
    /\ [](\A pos \in Pixels(canvas) :
             pixel_at(canvas, pos[1], pos[2])
                 = IF pos \in DOMAIN written THEN written[pos]
                   ELSE Color_new(0, 0, 0))
    /\ [][lastWrite'.n = lastWrite.n + 1 =>
            LET w == lastWrite'
            IN  /\ w.panic <=> (w.x >= canvas.width \/ w.y >= canvas.length)
                /\ panicked' = w.panic
                /\ w.panic => canvas' = canvas
                /\ ~w.panic =>
                      /\ canvas'.width = canvas.width
                      /\ canvas'.length = canvas.length
                      /\ \A pos \in Pixels(canvas) :
                            pixel_at(canvas', pos[1], pos[2])
                                = IF pos = <<w.x, w.y>> THEN w.color
                                  ELSE pixel_at(canvas, pos[1], pos[2])]_vars

\* a write at x = width panicked on a canvas of five columns that an earlier
\* write had changed
C16_Witness ==
    /\ lastWrite.n >= 2
    /\ lastWrite.panic
    /\ lastWrite.x = canvas.width
    /\ lastWrite.y < canvas.length
    /\ canvas.width = 5
    /\ DOMAIN written # {}

\* the pieces of str between the occurrences of the characters of seps,
\* computed on the two halves of str
RECURSIVE SplitOn(_, _)
SplitOn(str, seps) ==
    IF str = << >> THEN << << >> >>
    ELSE IF Len(str) = 1
         THEN IF str[1] \in seps THEN << << >>, << >> >> ELSE <<str>>
    ELSE LET half == Len(str) \div 2
             l == SplitOn(SubSeq(str, 1, half), seps)
             r == SplitOn(SubSeq(str, half + 1, Len(str)), seps)
         IN  SubSeq(l, 1, Len(l) - 1) \o <<l[Len(l)] \o r[1]>> \o Tail(r)

\* the lines of a text: what stands before each newline
TextLines(text) ==
    LET pieces == SplitOn(text, {"\n"})
    IN  SubSeq(pieces, 1, Len(pieces) - 1)

\* the lines after the three lines of the header
BodyLines(text) == SubSeq(TextLines(text), 4, Len(TextLines(text)))

Words(line) == IF line = << >> THEN << >> ELSE SplitOn(line, {" "})

DigitValue(c) == CHOOSE v \in 0..9 : DigitChars[v + 1] = c

RECURSIVE ParseNat(_)
ParseNat(word) ==
    IF word = << >> THEN 0
    ELSE 10 * ParseNat(SubSeq(word, 1, Len(word) - 1)) + DigitValue(word[Len(word)])

\* a word of decimal digits
WellFormed(word) ==
    /\ word # << >>
    /\ \A k \in 1..Len(word) : \E v \in 0..9 : DigitChars[v + 1] = word[k]

\* every body line is words of digits separated by single spaces
BodyWellFormed(text) ==
    LET body == BodyLines(text)
    IN  \A k \in 1..Len(body) :
            LET words == Words(body[k])
            IN  \A j \in 1..Len(words) : WellFormed(words[j])

\* the numbers of the body of a PPM text, in reading order
BodyNumbers(text) ==
    LET lines == TextLines(text)
        start == Len(lines[1]) + Len(lines[2]) + Len(lines[3]) + 4
        words == SelectSeq(SplitOn(SubSeq(text, start, Len(text)), {" ", "\n"}),
                           LAMBDA word : word # << >>)
    IN  [k \in 1..Len(words) |-> ParseNat(words[k])]

\* the colour components of a canvas in row-major order
Components(c) ==
    [k \in 1..(3 * c.width * c.length) |->
        c.grid[((k - 1) \div (3 * c.width)) + 1]
              [(((k - 1) % (3 * c.width)) \div 3) + 1][((k - 1) % 3) + 1]]

\* clamp(round(c * 255), 0, 255)
RoundClamp(c) ==
    IF c * 255 <= 0 THEN 0
    ELSE IF (c * 255 + One \div 2) \div One >= 255 THEN 255
    ELSE (c * 255 + One \div 2) \div One

\* clamp(trunc(c * 255), 0, 255)
TruncClamp(c) ==
    IF c * 255 <= 0 THEN 0
    ELSE IF (c * 255) \div One >= 255 THEN 255
    ELSE (c * 255) \div One

\* C17 as claimed: to_ppm writes every colour component c as the integer
\* clamp(round(c * 255), 0, 255): below 0 gives 0, above 1 gives 255, and an
\* in-range component is rounded to the nearest integer.
C17_ComponentsRounded ==
    ppmText.some =>
        LET components == Components(canvas)
        IN  /\ BodyWellFormed(ppmText.text)
            /\ BodyNumbers(ppmText.text)
                  = [k \in 1..Len(components) |-> RoundClamp(components[k])]

\* C17 as amended: to_ppm writes every colour component c as the integer
\* clamp(trunc(c * 255), 0, 255): below 0 gives 0, above 1 gives 255, and an
\* in-range component loses its fraction (0.5 gives 127).
C17_ComponentsTruncated ==
    ppmText.some =>
        LET components == Components(canvas)
        IN  /\ BodyWellFormed(ppmText.text)
            /\ BodyNumbers(ppmText.text)
                  = [k \in 1..Len(components) |-> TruncClamp(components[k])]

\* to_ppm ran on a canvas holding a component outside [0, 1] and one of 0.5
C17_Witness ==
    /\ ppmText.some
    /\ \E k \in 1..Len(Components(canvas)) :
          /\ Components(canvas)[k] \notin 0..One
          /\ BodyNumbers(ppmText.text)[k] \in {0, 255}
    /\ \E k \in 1..Len(Components(canvas)) :
          /\ Components(canvas)[k] = One \div 2
          /\ BodyNumbers(ppmText.text)[k] = 127

\* number of words on the lines before line k; counts[j] words on line j
RECURSIVE WordsBefore(_, _)
WordsBefore(counts, k) ==
    IF k <= 1 THEN 0 ELSE WordsBefore(counts, k - 1) + counts[k - 1]

\* C18: for a canvas of any width and height every line of the to_ppm output
\* is at most 70 characters long, no pixel triple is split across two lines,
\* every canvas row starts on a new line, all pixels appear in row-major
\* order, and the output ends with a newline.
C18_PpmLayout ==
    ppmText.some =>
        LET text == ppmText.text
            lines == TextLines(text)
            body == SubSeq(lines, 4, Len(lines))
            counts == [k \in 1..Len(body) |-> Len(Words(body[k]))]
            starts == {WordsBefore(counts, k) : k \in 1..Len(body)}
            components == Components(canvas)
        IN  /\ text[Len(text)] = "\n"
            /\ \A k \in 1..Len(lines) : Len(lines[k]) <= 70
            /\ \A k \in 1..Len(body) : counts[k] % 3 = 0
            /\ Len(body) >= canvas.length
            /\ \A k \in 1..Len(body) : canvas.width > 0 => body[k] # << >>
            /\ \A row \in 0..(canvas.length - 1) :
                  row * canvas.width * 3 \in starts
            /\ BodyWellFormed(text)
            /\ BodyNumbers(text)
                  = [k \in 1..Len(components) |-> as_u8(times_255(components[k]))]

\* to_ppm ran on a canvas of two rows of twelve pixels, two of them written,
\* and broke each row into two lines
C18_Witness ==
    /\ ppmText.some
    /\ canvas.width = 12
    /\ canvas.length = 2
    /\ Cardinality(DOMAIN written) = 2
    /\ Len(BodyLines(ppmText.text)) = 2 * canvas.length
    /\ \E k \in 1..Len(BodyLines(ppmText.text)) :
          Len(BodyLines(ppmText.text)[k]) > 60

----------------------------------------------------------------------------
(* Properties of Camera::render (SpecRender) *)

\* the pixels render visits before (x, y)
Before(x, y) ==
    {p \in DOMAIN scene : p[2] < y \/ (p[2] = y /\ p[1] < x)}

----------------------------------------------------------------------------
(* Properties of the shapes (SpecShape) *)

\* the Object in its own space: every transform the identity
InObjectSpace(object) ==
    [object EXCEPT !.transform = Matrix_id, !.transform_inverse = Matrix_id,
                   !.transform_inverse_transpose = Matrix_id]

\* C22: for every shape variant, the Intersections Object::intersect returns
\* are the ones the kernel of the shape computes in object space for the ray
\* transformed once by the cached inverse of the object: the kernel does not
\* transform the ray again.
C22_RayTransformedOnce ==
    (found.some /\ found.by = "Object::intersect") =>
        found.xs = Shape_intersect(
                       found.shape,
                       Ray_transform(found.ray, shapeObject.transform_inverse),
                       InObjectSpace(shapeObject))

\* C24: a closed cone reports the intersection with the plane of a cap, at
\* height y = minimum or y = maximum, exactly when the point of the ray in
\* that plane lies within the radius |y| of the cap: x^2 + z^2 <= y^2.
C24_ConeCapWithinRadius ==
    (/\ found.some
     /\ found.by = "Shape::intersect"
     /\ found.shape.variant = "Cone"
     /\ found.shape.closed
     /\ ~approx_zero(found.ray.direction[2])) =>
        \A y \in {found.shape.minimum, found.shape.maximum} :
            LET t == f64_ratio(y - found.ray.origin[2], found.ray.direction[2])
            IN  (\E i \in 1..Len(found.xs) : found.xs[i] = Hit_at(t, "cap"))
                    <=> dist2_at(found.ray, t) <= y * y * t.d * t.d

\* C25: every convenience constructor builds the shape variant its name
\* denotes, with the bounds it is given and the closed flag of its name, so
\* that Object::intersect on the Object dispatches to the kernel of that
\* variant (for new_closed_cone, the cone kernel).
C25_ConstructorBuildsNamedShape ==
    /\ builtBy.name = "new_cylinder" =>
          shapeObject.shape = Shape_Cylinder(builtBy.minimum, builtBy.maximum, FALSE)
    /\ builtBy.name = "new_closed_cylinder" =>
          shapeObject.shape = Shape_Cylinder(builtBy.minimum, builtBy.maximum, TRUE)
    /\ builtBy.name = "new_cone" =>
          shapeObject.shape = Shape_Cone(builtBy.minimum, builtBy.maximum, FALSE)
    /\ builtBy.name = "new_closed_cone" =>
          /\ shapeObject.shape = Shape_Cone(builtBy.minimum, builtBy.maximum, TRUE)
          /\ (found.some /\ found.by = "Object::intersect") =>
                found.xs = Cone_intersects(
                               Shape_Cone(builtBy.minimum, builtBy.maximum, TRUE),
                               Ray_transform(found.ray,
                                             shapeObject.transform_inverse),
                               shapeObject)

\* the ray a kernel worked on in the intersect call made last
KernelRay ==
    IF found.by = "Object::intersect"
    THEN Ray_transform(found.ray, shapeObject.transform_inverse)
    ELSE found.ray

\* C29: every intersection a cylinder or a cone reports on its side wall lies
\* strictly between its bounds, minimum < origin.y + t * direction.y < maximum,
\* the single root of a ray parallel to one half of a cone included.
C29_WallHitsBetweenBounds ==
    (found.some /\ found.shape.variant \in {"Cylinder", "Cone"}) =>
        \A i \in 1..Len(found.xs) :
            found.xs[i].part = "wall" =>
                LET t == found.xs[i].t
                    y == KernelRay.origin[2] * t.d + t.n * KernelRay.direction[2]
                IN  /\ found.shape.minimum * t.d < y
                    /\ y < found.shape.maximum * t.d

----------------------------------------------------------------------------
(* Properties of lighting and shadows (SpecLighting) *)

\* C23: lighting returns the ambient term alone, diffuse and specular both
\* black, whenever in_shadow is true and the material casts shadows; when
\* the material does not cast shadows, in_shadow changes nothing in what
\* lighting returns; and what is_shadowed returns is decided by the t values
\* of the intersections and the distance to the light alone, whatever
\* does_cast_shadow is for the objects of the World.
C23_ShadowFlagInLightingOnly ==
    /\ shaded.some =>
          /\ (shaded.in_shadow /\ shaded.material.does_cast_shadow) =>
                /\ shaded.result.diffuse = Black
                /\ shaded.result.specular = Black
                /\ shaded.result.color = shaded.result.ambient
          /\ ~shaded.material.does_cast_shadow =>
                shaded.result = lighting(shaded.material, shaded.intensity,
                                         shaded.light_dot_normal,
                                         shaded.reflect_dot_eye, FALSE)
    /\ verdict.some =>
          LET ts == verdict.ts
              front == {i \in 1..Len(ts) : ~is_nan(ts[i]) /\ ts[i] >= 0}
              nearest == {i \in front : \A j \in front : ts[i] <= ts[j]}
          IN  verdict.result <=> \E i \in nearest : ts[i] < verdict.distance

\* is_shadowed returned true because of an object whose material does not
\* cast shadows, and lighting, handed that value for a material that does,
\* gave the ambient term alone for a surface facing the light and the eye
C23_Witness ==
    /\ verdict.some
    /\ verdict.result
    /\ ~casters[verdict.hit.i.object]
    /\ shaded.some
    /\ shaded.in_shadow
    /\ shaded.material.does_cast_shadow
    /\ shaded.light_dot_normal = One
    /\ shaded.reflect_dot_eye = One
    /\ shaded.result.color = shaded.result.ambient
    /\ shaded.result.ambient > Black

----------------------------------------------------------------------------
(* Properties of a sequence of calls on one ray (SpecRay) *)

\* the stack the ray had before the first call
InitialStack == IF calls = << >> THEN ray ELSE calls[1].before

\* C26: in a sequence of calls on one ray the n1 reported by each call is the
\* n2 reported by the call before it, and the n1 of the first call is the top
\* of the ray's initial stack.
C26_N1IsPreviousN2 ==
    /\ 1 \in Returned => calls[1].n1 = Last(InitialStack)
    /\ \A i \in Returned :
          (i > 1 /\ i - 1 \in Returned) => calls[i].n1 = calls[i - 1].n2

NoDuplicates(s) ==
    \A i, j \in 1..Len(s) : i # j => ~approx_eq(s[i], s[j])

\* C30: starting from a stack without two approximately equal indices, the
\* stack never holds two approximately equal indices, every entering call
\* lengthens it by exactly one and every exiting call shortens it by exactly
\* one.
C30_NoDuplicatesUnitSteps ==
    NoDuplicates(InitialStack) =>
        /\ NoDuplicates(ray)
        /\ \A i \in Returned :
              Len(calls[i].after) = Len(calls[i].before)
                                    + (IF calls[i].is_entering THEN 1 ELSE -1)

----------------------------------------------------------------------------
(* Properties of a world without lights (SpecWorld) *)

\* C27: in a world with objects and an empty light list color_at and
\* shade_hit do not fail: a call whose ray carries a non-empty index stack
\* (so the lookup of n1 succeeds) never panics.
C27_NoLightsNoPanic ==
    (/\ world.lights = 0
     /\ frames # << >>
     /\ Top.ray # << >>)
        => ~panicked

----------------------------------------------------------------------------
(* Properties of repeated color_at calls on one ray (SpecAgain) *)

ColourReturned == {i \in 1..Len(colours) : ~colours[i].panic}

====
